---- MODULE Spec2Model ----
(***************************************************************************)
(* Convergence engine of figma-to-code-agent: the Deviation Analyzer       *)
(* (tools/compare_measurements.py), the Accuracy Scorer, the Issue         *)
(* Classifier (tools/triage_issues.py) and the Iteration Controller        *)
(* (scripts/run_multi_iteration_with_triage.py).                           *)
(*                                                                         *)
(* Lengths are given in hundredths of a pixel (an integer n stands for the *)
(* JSON number n/100); the analyzer works on IEEE-754 binary64 values, so  *)
(* the model carries a binary64 arithmetic: a value is a sign, a 53-bit    *)
(* significand (most significant bit first) and the exponent of its last   *)
(* bit.                                                                    *)
(***************************************************************************)
EXTENDS Integers, Sequences, FiniteSets, TLC

-----------------------------------------------------------------------------
(* Python evaluates the arguments of a call before the call: v is computed  *)
(* once and handed to F.                                                    *)

Eval(v, F(_)) == CHOOSE y \in {F(x) : x \in {v}} : TRUE

Eval2(u, v, F(_, _)) == CHOOSE y \in {F(a, b) : a \in {u}, b \in {v}} : TRUE

-----------------------------------------------------------------------------
(* Natural numbers as bit sequences, most significant bit first.           *)

Zeros(n) == [i \in 1..n |-> 0]

RECURSIVE NatBits(_)
NatBits(n) == IF n = 0 THEN <<>> ELSE Append(NatBits(n \div 2), n % 2)

\* b without its leading zeros
Strip(bits) ==
    Eval(bits, LAMBDA b :
        IF \A i \in 1..Len(b) : b[i] = 0 THEN <<>>
        ELSE SubSeq(b, CHOOSE i \in 1..Len(b) : b[i] = 1 /\ \A j \in 1..(i - 1) : b[j] = 0,
                    Len(b)))

\* -1, 0, 1 as x < y, x = y, x > y (both without leading zeros)
BitsCmp(x, y) ==
    Eval2(x, y, LAMBDA a, b :
        IF Len(a) # Len(b) THEN (IF Len(a) > Len(b) THEN 1 ELSE -1)
        ELSE IF a = b THEN 0
        ELSE Eval(CHOOSE i \in 1..Len(a) : a[i] # b[i] /\ \A j \in 1..(i - 1) : a[j] = b[j],
                  LAMBDA f : IF a[f] > b[f] THEN 1 ELSE -1))

\* the arithmetic below works on ChunkBits bits at a time
ChunkBits == 15

\* the number written by the bits b[from + 1] .. b[from + n]
RECURSIVE BitsVal(_, _, _)
BitsVal(b, from, n) == IF n = 0 THEN 0 ELSE 2 * BitsVal(b, from, n - 1) + b[from + n]

\* v < 2^n written with n bits
ValBits(v, n) == [i \in 1..n |-> (v \div 2^(n - i)) % 2]

\* b with leading zeros up to a whole number of chunks
Chunked(bits, len) ==
    Eval(bits, LAMBDA b :
        Zeros(((len + ChunkBits - 1) \div ChunkBits) * ChunkBits - Len(b)) \o b)

\* a - b for a >= b of one chunked length, chunk by chunk from the last with a borrow
RECURSIVE SubFrom(_, _, _)
SubFrom(a, b, st) ==
    IF st.i = 0 THEN st.acc
    ELSE Eval(BitsVal(a, (st.i - 1) * ChunkBits, ChunkBits)
              - BitsVal(b, (st.i - 1) * ChunkBits, ChunkBits) - st.borrow, LAMBDA d :
         Eval([i |-> st.i - 1, borrow |-> IF d < 0 THEN 1 ELSE 0,
               acc |-> ValBits((d + 2^ChunkBits) % 2^ChunkBits, ChunkBits) \o st.acc],
              LAMBDA next : SubFrom(a, b, next)))

BitsSub(x, y) ==
    Eval2(Chunked(x, Len(x)), Chunked(y, Len(x)), LAMBDA a, b :
        Strip(SubFrom(a, b, [i |-> Len(a) \div ChunkBits, borrow |-> 0, acc |-> <<>>])))

\* b * k for a small k, chunk by chunk from the last with a carry
RECURSIVE MulFrom(_, _, _)
MulFrom(b, k, st) ==
    IF st.i = 0 THEN NatBits(st.carry) \o st.acc
    ELSE Eval(BitsVal(b, (st.i - 1) * ChunkBits, ChunkBits) * k + st.carry, LAMBDA d :
         Eval([i |-> st.i - 1, carry |-> d \div 2^ChunkBits,
               acc |-> ValBits(d % 2^ChunkBits, ChunkBits) \o st.acc],
              LAMBDA next : MulFrom(b, k, next)))

BitsMul(bits, k) ==
    Eval(Chunked(bits, Len(bits)), LAMBDA b :
        Strip(MulFrom(b, k, [i |-> Len(b) \div ChunkBits, carry |-> 0, acc |-> <<>>])))

\* b \div q and b % q for a small q, chunk by chunk from the first
RECURSIVE DivFrom(_, _, _)
DivFrom(b, q, st) ==
    IF st.i * ChunkBits >= Len(b) THEN [quot |-> Strip(st.acc), rem |-> st.r]
    ELSE Eval(st.r * 2^ChunkBits + BitsVal(b, st.i * ChunkBits, ChunkBits), LAMBDA d :
         Eval([i |-> st.i + 1, r |-> d % q, acc |-> st.acc \o ValBits(d \div q, ChunkBits)],
              LAMBDA next : DivFrom(b, q, next)))

BitsDiv(bits, q) ==
    Eval(Chunked(bits, Len(bits)), LAMBDA b : DivFrom(b, q, [i |-> 0, r |-> 0, acc |-> <<>>]))

BitsInc(bits) ==
    Eval(bits, LAMBDA b :
        IF \A i \in 1..Len(b) : b[i] = 1 THEN <<1>> \o Zeros(Len(b))
        ELSE Eval(CHOOSE i \in 1..Len(b) : b[i] = 0 /\ \A j \in (i + 1)..Len(b) : b[j] = 1,
                  LAMBDA z : [i \in 1..Len(b) |->
                                 IF i < z THEN b[i] ELSE IF i = z THEN 1 ELSE 0]))

-----------------------------------------------------------------------------
(* IEEE-754 binary64, round to nearest, ties to even.  The values of the   *)
(* analyzer stay far from the subnormal and the overflow range.            *)

MantBits == 53

FZero == [s |-> 0, m |-> <<>>, e |-> 0]

\* the binary64 nearest to (-1)^s * b * 2^e; sticky: a non-zero rest below b
RoundToDouble(s, bits, e, sticky) ==
    Eval(bits, LAMBDA b :
        IF Len(b) = 0 THEN FZero
        ELSE IF Len(b) <= MantBits
        THEN [s |-> s, m |-> b \o Zeros(MantBits - Len(b)), e |-> e - (MantBits - Len(b))]
        ELSE Eval(IF b[MantBits + 1] = 1
                     /\ ( \/ sticky
                          \/ \E i \in (MantBits + 2)..Len(b) : b[i] = 1
                          \/ b[MantBits] = 1 )
                  THEN BitsInc(SubSeq(b, 1, MantBits))
                  ELSE SubSeq(b, 1, MantBits),
                  LAMBDA rounded :
                      IF Len(rounded) > MantBits
                      THEN [s |-> s, m |-> SubSeq(rounded, 1, MantBits),
                            e |-> e + (Len(b) - MantBits) + 1]
                      ELSE [s |-> s, m |-> rounded, e |-> e + (Len(b) - MantBits)]))

FromInt(k) == RoundToDouble(0, NatBits(k), 0, FALSE)

\* quotient bits a division yields before it is rounded
QuotientBits == 56

\* how far b is shifted so that b \div q has at least QuotientBits bits
DivShift(b, q) ==
    IF QuotientBits + Len(NatBits(q)) > Len(b)
    THEN QuotientBits + Len(NatBits(q)) - Len(b) ELSE 0

\* the binary64 nearest to (-1)^s * b * 2^e / q, for q > 0
RoundedQuotient(s, bits, e, q) ==
    Eval(bits, LAMBDA b :
        IF b = <<>> THEN FZero
        ELSE Eval(DivShift(b, q), LAMBDA sh :
             Eval(BitsDiv(b \o Zeros(sh), q), LAMBDA d :
                 RoundToDouble(s, d.quot, e - sh, d.rem # 0))))

\* the binary64 nearest to p / q, for naturals p and q > 0
FromRatio(p, q) ==
    IF p % q = 0 THEN FromInt(p \div q) ELSE RoundedQuotient(0, NatBits(p), 0, q)

\* a - b for a, b >= 0
FSub(a, b) ==
    Eval2(a, b, LAMBDA x, y :
        Eval(IF x.m = <<>> THEN y.e ELSE IF y.m = <<>> THEN x.e
             ELSE IF x.e < y.e THEN x.e ELSE y.e, LAMBDA lo :
        Eval2(IF x.m = <<>> THEN <<>> ELSE x.m \o Zeros(x.e - lo),
              IF y.m = <<>> THEN <<>> ELSE y.m \o Zeros(y.e - lo), LAMBDA xa, ya :
        Eval(BitsCmp(xa, ya), LAMBDA c :
            IF c = 0 THEN FZero
            ELSE IF c > 0 THEN RoundToDouble(0, BitsSub(xa, ya), lo, FALSE)
            ELSE RoundToDouble(1, BitsSub(ya, xa), lo, FALSE)))))

\* a / q for an integer q > 0
FDivInt(a, q) == Eval(a, LAMBDA x : RoundedQuotient(x.s, x.m, x.e, q))

\* a * k for an integer k > 0
FMulInt(a, k) ==
    Eval(a, LAMBDA x :
        IF x.m = <<>> THEN FZero ELSE RoundToDouble(x.s, BitsMul(x.m, k), x.e, FALSE))

\* abs(a) > k for an integer k >= 0
FAbsGt(a, k) ==
    Eval(a, LAMBDA x :
        IF x.m = <<>> THEN FALSE
        ELSE IF x.e >= 0 THEN BitsCmp(x.m \o Zeros(x.e), NatBits(k)) > 0
        ELSE BitsCmp(x.m, NatBits(k) \o Zeros(0 - x.e)) > 0)

\* a > 0
FPositive(a) == Eval(a, LAMBDA x : x.m # <<>> /\ x.s = 0)

-----------------------------------------------------------------------------
(* Spec Registry: tools/compare_measurements.py, ELEMENT_MAPPING, in the    *)
(* order of the dict.  Expected values are whole pixels.                    *)

ELEMENT_MAPPING == <<
    [key |-> "main_product_image", figma_id |-> "157:745", figma_name |-> "Image1",
     expected_width |-> 576, expected_height |-> 720, type |-> "image"],
    [key |-> "product_title", figma_id |-> "157:800",
     figma_name |-> "Brushed cashmere short-sleeve cardigan",
     expected_width |-> 500, expected_height |-> 24, expected_font_size |-> 24,
     expected_font_family |-> "Big Caslon", type |-> "text"],
    [key |-> "product_description", figma_id |-> "157:814", figma_name |-> "romance copy",
     expected_width |-> 500, expected_height |-> 108, expected_font_size |-> 18,
     expected_font_family |-> "Soleil", type |-> "text"],
    [key |-> "selection_bar", figma_id |-> "157:817",
     figma_name |-> "floating-selection-bar",
     expected_width |-> 1162, expected_height |-> 112, type |-> "container"],
    [key |-> "left_column", figma_id |-> "157:798", figma_name |-> "left column",
     expected_width |-> 500, expected_height |-> 224, type |-> "container"] >>

ElementKeys == {ELEMENT_MAPPING[i].key : i \in 1..Len(ELEMENT_MAPPING)}

\* dict.get(k, default)
Get(d, k, default) == IF k \in DOMAIN d THEN d[k] ELSE default

\* json.loads of the number n / 100 (a length in hundredths of a pixel)
json_number(n) == FromRatio(n, 100)

-----------------------------------------------------------------------------
(* Deviation Analyzer: tools/compare_measurements.py                        *)

\* ((actual - expected) / expected) * 100, in binary64
calculate_deviation(actual, expected) ==
    IF expected = 0 THEN FZero
    ELSE FMulInt(FDivInt(FSub(actual, FromInt(expected)), expected), 100)

\* a fontSize string: [kind |-> "px", n |-> n] is the text of n / 100 followed
\* by "px", [kind |-> "empty"] the empty string, [kind |-> "word"] a string that
\* float() rejects, such as "medium"
parse_font_size(font_size_str) ==
    IF font_size_str.kind = "empty" THEN FZero
    ELSE IF font_size_str.kind = "px" THEN json_number(font_size_str.n)
    ELSE FZero

\* mutant: a width or height issue is never more than medium
DimensionPriorityMedium(deviation) == "medium"

\* the priority of a width or height deviation
DimensionPriority(deviation) == IF FAbsGt(deviation, 20) THEN "high" ELSE "medium"

\* the priority of a font size deviation
FontPriority(deviation) == "medium"

\* mutant: only an element without an entry counts as missing
NotFoundAbsentOnly(dom_measurements, element_key) ==
    \/ element_key \notin DOMAIN dom_measurements
    \/ DOMAIN dom_measurements[element_key] = {}

\* is the element missing from the measurement set (not dom_elem or not found)
NotFound(dom_measurements, element_key) ==
    \/ element_key \notin DOMAIN dom_measurements
    \/ DOMAIN dom_measurements[element_key] = {}
    \/ ~Get(dom_measurements[element_key], "found", FALSE)

MissingIssue(expected) ==
    [priority |-> "high", category |-> "missing_element",
     element |-> expected.figma_name, figma_id |-> expected.figma_id,
     issue |-> [text |-> "Element not found in DOM", actual |-> 0, expected |-> 0],
     fix |-> [text |-> "Add element matching Figma node", value |-> 0]]

WidthIssues(expected, dims) ==
    LET actual_width == Get(dims, "width", 0)
    IN Eval(calculate_deviation(json_number(actual_width), expected.expected_width),
            LAMBDA width_deviation :
       IF FAbsGt(width_deviation, 10)
       THEN << [priority |-> DimensionPriority(width_deviation),
                category |-> "dimension",
                element |-> expected.figma_name, figma_id |-> expected.figma_id,
                issue |-> [text |-> "Width is", actual |-> actual_width,
                           expected |-> expected.expected_width],
                deviation |-> IF FPositive(width_deviation) THEN "too wide"
                              ELSE "too narrow",
                fix |-> [text |-> "Set width to", value |-> expected.expected_width]] >>
       ELSE << >>)

HeightIssues(expected, dims) ==
    LET actual_height == Get(dims, "height", 0)
    IN Eval(calculate_deviation(json_number(actual_height), expected.expected_height),
            LAMBDA height_deviation :
       IF FAbsGt(height_deviation, 10)
       THEN << [priority |-> DimensionPriority(height_deviation),
                category |-> "dimension",
                element |-> expected.figma_name, figma_id |-> expected.figma_id,
                issue |-> [text |-> "Height is", actual |-> actual_height,
                           expected |-> expected.expected_height],
                deviation |-> IF FPositive(height_deviation) THEN "too tall"
                              ELSE "too short",
                fix |-> [text |-> "Set height to", value |-> expected.expected_height]] >>
       ELSE << >>)

\* mutant: the font size of every element is compared, against 16px by default
FontIssuesAnyType(expected, dom_elem) ==
    LET font_size_str == Get(Get(dom_elem, "styles", << >>), "fontSize", [kind |-> "empty"])
        expected_font_size == Get(expected, "expected_font_size", 16)
    IN Eval(calculate_deviation(parse_font_size(font_size_str), expected_font_size),
            LAMBDA font_size_deviation :
       IF FAbsGt(font_size_deviation, 10)
       THEN << [priority |-> FontPriority(font_size_deviation),
                category |-> "typography",
                element |-> expected.figma_name, figma_id |-> expected.figma_id,
                issue |-> [text |-> "Font size is",
                           actual |-> IF font_size_str.kind = "px"
                                      THEN font_size_str.n ELSE 0,
                           expected |-> expected_font_size],
                deviation |-> IF FPositive(font_size_deviation) THEN "too large"
                              ELSE "too small",
                fix |-> [text |-> "Set font-size to", value |-> expected_font_size]] >>
       ELSE << >>)

FontIssues(expected, dom_elem) ==
    IF expected.type = "text" /\ "expected_font_size" \in DOMAIN expected
    THEN LET font_size_str == Get(Get(dom_elem, "styles", << >>), "fontSize",
                                  [kind |-> "empty"])
         IN Eval(calculate_deviation(parse_font_size(font_size_str),
                                     expected.expected_font_size),
                 LAMBDA font_size_deviation :
            IF FAbsGt(font_size_deviation, 10)
            THEN << [priority |-> FontPriority(font_size_deviation),
                     category |-> "typography",
                     element |-> expected.figma_name, figma_id |-> expected.figma_id,
                     issue |-> [text |-> "Font size is",
                                actual |-> IF font_size_str.kind = "px"
                                           THEN font_size_str.n ELSE 0,
                                expected |-> expected.expected_font_size],
                     deviation |-> IF FPositive(font_size_deviation) THEN "too large"
                                   ELSE "too small",
                     fix |-> [text |-> "Set font-size to",
                              value |-> expected.expected_font_size]] >>
            ELSE << >>)
    ELSE << >>

\* the feedback items of one registry entry (one pass of the for loop)
ElementFeedback(dom_measurements, expected) ==
    IF NotFound(dom_measurements, expected.key)
    THEN << MissingIssue(expected) >>
    ELSE LET dom_elem == dom_measurements[expected.key]
             dims     == Get(dom_elem, "dimensions", << >>)
         IN WidthIssues(expected, dims) \o HeightIssues(expected, dims)
            \o FontIssues(expected, dom_elem)

RECURSIVE FeedbackFrom(_, _)
FeedbackFrom(dom_measurements, i) ==
    IF i > Len(ELEMENT_MAPPING) THEN << >>
    ELSE ElementFeedback(dom_measurements, ELEMENT_MAPPING[i])
         \o FeedbackFrom(dom_measurements, i + 1)

compare_measurements(dom_measurements) == FeedbackFrom(dom_measurements, 1)

\* format_feedback_for_agent, line 161
priority_order(priority) ==
    IF priority = "high" THEN 0
    ELSE IF priority = "medium" THEN 1
    ELSE IF priority = "low" THEN 2
    ELSE 3

\* the display names of the registry in the order of Python's str comparison
\* (by code point: capitals before small letters)
NamesInOrder ==
    << "Brushed cashmere short-sleeve cardigan", "Image1", "floating-selection-bar",
       "left column", "romance copy" >>

NameRank(element) == CHOOSE i \in 1..Len(NamesInOrder) : NamesInOrder[i] = element

\* format_feedback_for_agent, line 162: is the sort key of x at most that of y
KeyLeq(x, y) ==
    \/ priority_order(x.priority) < priority_order(y.priority)
    \/ /\ priority_order(x.priority) = priority_order(y.priority)
       /\ NameRank(x.element) <= NameRank(y.element)

\* list.sort(key=...) of line 162: a stable sort, an item goes behind the items
\* whose key is at most its own
RECURSIVE SortedInto(_, _, _)
SortedInto(sorted, list, i) ==
    IF i > Len(list) THEN sorted
    ELSE LET x == list[i]
             n == Cardinality({k \in 1..Len(sorted) :
                                 \A j \in 1..k : KeyLeq(sorted[j], x)})
         IN SortedInto(SubSeq(sorted, 1, n) \o << x >> \o SubSeq(sorted, n + 1, Len(sorted)),
                       list, i + 1)

\* lines 164-174: the numbered lines of the text, one for each item of the list
FeedbackText(feedback) ==
    [i \in 1..Len(feedback) |->
        [number |-> i, priority |-> feedback[i].priority, element |-> feedback[i].element,
         issue |-> feedback[i].issue, fix |-> feedback[i].fix]]

\* mutant: the text is made from a sorted copy, sorted(feedback)
format_feedback_for_agent_copy(feedback) ==
    IF Len(feedback) = 0
    THEN [feedback |-> feedback, output |-> << "All measurements match Figma design!" >>]
    ELSE [feedback |-> feedback, output |-> FeedbackText(SortedInto(<< >>, feedback, 1))]

\* format_feedback_for_agent: the text it returns (output) and the list of
\* the caller as the call leaves it (feedback)
format_feedback_for_agent(feedback) ==
    IF Len(feedback) = 0
    THEN [feedback |-> feedback, output |-> << "All measurements match Figma design!" >>]
    ELSE LET sorted == SortedInto(<< >>, feedback, 1)
         IN [feedback |-> sorted, output |-> FeedbackText(sorted)]

-----------------------------------------------------------------------------
(* Accuracy Scorer: scripts/run_multi_iteration_with_triage.py              *)

Penalty(item) ==
    LET priority == Get(item, "priority", "low")
    IN IF priority = "high" THEN 5
       ELSE IF priority = "medium" THEN 2
       ELSE IF priority = "low" THEN 1
       ELSE 0

RECURSIVE SumPenalty(_, _)
SumPenalty(feedback, i) ==
    IF i > Len(feedback) THEN 0 ELSE Penalty(feedback[i]) + SumPenalty(feedback, i + 1)

\* mutant: the score is not held at the floor
MaxUnclamped(a, b) == b

Max(a, b) == IF a >= b THEN a ELSE b

calculate_accuracy_score(feedback) == Max(0, 100 - SumPenalty(feedback, 1))

-----------------------------------------------------------------------------
(* Issue Classifier: tools/triage_issues.py                                 *)

\* The issue texts are the f-string templates of compare_measurements, and a
\* few messages of other callers; the classifier searches them for fixed
\* words.  For each text, the words the code looks for that occur in the
\* lower-cased text ...
LowerWords(text) ==
    IF text = "Element not found in DOM" THEN {"element not found", "not found"}
    ELSE IF text = "Width is" THEN {"width is"}
    ELSE IF text = "Height is" THEN {"height is"}
    ELSE IF text = "Font size is" THEN {"font size is"}
    ELSE IF text = "Text line-height too tight" THEN {"line-height"}
    ELSE IF text = "Column too wide, caption missing" THEN {"too wide", "missing"}
    ELSE {}

\* ... and in the text as written ("Height is" holds no lower-case "height")
RawWords(text) ==
    IF text \in {"Width is", "Height is", "Font size is", "Padding is 8px, should be 16px"}
    THEN {"is ", "should be "}
    ELSE IF text \in {"Text line-height too tight", "Total height differs"} THEN {"height"}
    ELSE {}

\* pattern in issue.get('issue', '').lower()
InIssueText(pattern, issue) ==
    "issue" \in DOMAIN issue /\ pattern \in LowerWords(issue.issue.text)

\* pattern in issue.get('issue', '')
InRawIssueText(pattern, issue) ==
    "issue" \in DOMAIN issue /\ pattern \in RawWords(issue.issue.text)

auto_fixable_patterns == <<"width is", "font size is", "font-size is", "too wide", "too narrow">>

needs_input_patterns == <<"element not found", "missing", "height is", "line-height">>

\* iteration_history and len(iteration_history) >= 2
is_stuck(iteration_history) == Len(iteration_history) >= 2

\* mutant: the patterns that need input are looked for first
categorize_issue_needs_first(issue, iteration_history) ==
    IF \E i \in 1..Len(needs_input_patterns) : InIssueText(needs_input_patterns[i], issue)
    THEN "needs-designer-input"
    ELSE IF \E i \in 1..Len(auto_fixable_patterns) : InIssueText(auto_fixable_patterns[i], issue)
    THEN (IF is_stuck(iteration_history) THEN "needs-designer-input" ELSE "auto-fixable")
    ELSE IF Get(issue, "priority", "none") = "high" \/ is_stuck(iteration_history)
    THEN "needs-designer-input"
    ELSE "auto-fixable"

categorize_issue(issue, iteration_history) ==
    IF \E i \in 1..Len(auto_fixable_patterns) : InIssueText(auto_fixable_patterns[i], issue)
    THEN (IF is_stuck(iteration_history) THEN "needs-designer-input" ELSE "auto-fixable")
    ELSE IF \E i \in 1..Len(needs_input_patterns) : InIssueText(needs_input_patterns[i], issue)
    THEN "needs-designer-input"
    ELSE IF Get(issue, "priority", "none") = "high" \/ is_stuck(iteration_history)
    THEN "needs-designer-input"
    ELSE "auto-fixable"

\* 'font' in element.lower(): no display name of the registry holds it
FontInElementName(element) == element \in {"Font label"}

\* the branch generate_designer_question takes
QuestionBranch(issue) ==
    IF InIssueText("not found", issue) \/ Get(issue, "category", "general") = "missing_element"
    THEN "missing"
    ELSE IF InIssueText("height is", issue) THEN "height"
    ELSE IF InIssueText("line-height", issue)
            \/ (InRawIssueText("height", issue)
                /\ FontInElementName(Get(issue, "element", "Unknown element")))
    THEN "typography"
    ELSE "generic"

\* mutant: the last branch leaves the fields as they were initialised
generate_designer_question_unfilled(issue) ==
    [element |-> Get(issue, "element", "Unknown element"),
     figma_id |-> Get(issue, "figma_id", ""),
     category |-> Get(issue, "category", "general"),
     issue |-> issue.issue,
     priority |-> Get(issue, "priority", "medium"),
     context |-> "", question |-> "", options |-> << >>, recommendation |-> ""]

generate_designer_question(issue) ==
    LET branch == QuestionBranch(issue)
        base == [element |-> Get(issue, "element", "Unknown element"),
                 figma_id |-> Get(issue, "figma_id", ""),
                 category |-> Get(issue, "category", "general"),
                 issue |-> issue.issue,
                 priority |-> Get(issue, "priority", "medium")]
    IN IF branch = "missing"
       THEN base @@ [context |-> "Complex UI component exists in Figma but structure unclear",
                     question |-> "What should be inside? How should it be structured in HTML?",
                     options |-> <<"describe", "optional", "defer">>,
                     recommendation |-> "Recommend describing structure for best fidelity"]
       ELSE IF branch = "height"
       THEN base @@ [context |-> "Figma shows fixed height, but HTML naturally sizes based on content",
                     question |-> "Should it be fixed height or flexible?",
                     options |-> <<"fixed", "flexible", "min-height">>,
                     recommendation |-> "Recommend flexible (auto) for web-native behavior"]
       ELSE IF branch = "typography"
       THEN base @@ [context |-> "Text height includes font-size + line-height",
                     question |-> "What matters more?",
                     options |-> <<"font-size", "total-height", "balanced">>,
                     recommendation |-> "Recommend font-size accuracy with natural line-height"]
       ELSE base @@ [context |-> "Issue with element",
                     question |-> "How should we resolve this?",
                     options |-> <<"accept", "manual", "defer">>,
                     recommendation |-> "Recommend accepting if close enough"]

RECURSIVE Questions(_, _)
Questions(needs_designer_input, i) ==
    IF i > Len(needs_designer_input) THEN << >>
    ELSE << generate_designer_question(needs_designer_input[i]) >>
         \o Questions(needs_designer_input, i + 1)

TriageReport(issues, iteration_count, iteration_history) ==
    LET auto_fixable == SelectSeq(issues,
            LAMBDA x : categorize_issue(x, iteration_history) = "auto-fixable")
        needs_designer_input == SelectSeq(issues,
            LAMBDA x : categorize_issue(x, iteration_history) # "auto-fixable")
    IN [summary |-> [iterations_attempted |-> iteration_count,
                     total_issues         |-> Len(issues),
                     auto_fixable         |-> Len(auto_fixable),
                     needs_designer_input |-> Len(needs_designer_input),
                     plateau_detected     |-> TRUE],
        auto_fixable_issues |-> auto_fixable,
        designer_questions  |-> Questions(needs_designer_input, 1),
        recommendations |-> << IF Len(auto_fixable) > 0
                               THEN "Auto-fixed issues successfully"
                               ELSE "All auto-fixable issues resolved",
                               "issues need designer input to proceed",
                               "Review questions below and provide guidance",
                               "After designer input, run additional improvement iterations" >>]

\* mutant: the caller's iteration_count is dropped and the default of 2 is reported
triage_issues_default_count(issues, iteration_count, iteration_history) ==
    TriageReport(issues, 2, iteration_history)

\* mutant: a question is built for every issue, the auto-fixable ones too
triage_issues_asks_all(issues, iteration_count, iteration_history) ==
    [TriageReport(issues, iteration_count, iteration_history)
        EXCEPT !.designer_questions = Questions(issues, 1)]

triage_issues(issues, iteration_count, iteration_history) ==
    TriageReport(issues, iteration_count, iteration_history)

\* format_triage_report_for_display, lines 291-294: does the rendered report
\* hold the PLATEAU DETECTED section
ShowsPlateauSection(triage_report) == triage_report.summary.plateau_detected

-----------------------------------------------------------------------------
(* Iteration Controller: scripts/run_multi_iteration_with_triage.py         *)

\* largest configured MAX_AUTO_ITERATIONS the model runs
MaxIterBound == 3

PLATEAU_THRESHOLD == 0

\* the configured accuracy targets the model runs
Targets == {85, 90}

VARIABLES
    MAX_AUTO_ITERATIONS,  \* configuration: the iteration budget
    MIN_ACCURACY_TARGET,  \* configuration: the accuracy target
    pc,                   \* MEASURING, ANALYZING, DECIDING, PATCHING, then how the run ended
    iteration,            \* the loop index
    iteration_history,
    previous_accuracy,
    current_accuracy,
    current_html_path,    \* 0 is the input file, k is code/<base>_v<k>.html
    files,                \* the content of each file written so far
    measurements,         \* dom_measurements: the set under analysis
    feedback,
    triage_reports,       \* the TriageReports saved, in order
    progress_label,       \* what the budget check printed about the last two scores
    summary_files,        \* the iteration_summary.json written (none or one)
    measure_calls,
    patch_results,        \* the outcome of each improve_code call, in order
    error,                \* the exception that left run_multi_iteration_with_triage
    calls,                \* the collaborator calls made, with their arguments, in order
    registry              \* the module-level dict ELEMENT_MAPPING as the analyzer finds it

vars == << MAX_AUTO_ITERATIONS, MIN_ACCURACY_TARGET, pc, iteration, iteration_history,
           previous_accuracy, current_accuracy, current_html_path, files, measurements,
           feedback, triage_reports, progress_label, summary_files, measure_calls,
           patch_results, error, calls, registry >>

config == << MAX_AUTO_ITERATIONS, MIN_ACCURACY_TARGET, registry >>

-----------------------------------------------------------------------------
(* What the measurement collaborator (tools/measure_dom_simple.js through   *)
(* run_dom_measurement) can return: one entry per element it reports, with  *)
(* lengths in hundredths of a pixel.                                        *)

Entry(w, h, f) ==
    [found |-> TRUE, dimensions |-> [width |-> w, height |-> h],
     styles |-> [fontSize |-> [kind |-> "px", n |-> f]]]

ExpectedFont(expected) == Get(expected, "expected_font_size", 16)

\* the entry of an element rendered as designed, but for the given percentages
\* of its expected width and height
EntryAt(expected, wpct, hpct) ==
    Entry(expected.expected_width * wpct, expected.expected_height * hpct,
          ExpectedFont(expected) * 100)

IndexOf(key) == CHOOSE i \in 1..Len(ELEMENT_MAPPING) : ELEMENT_MAPPING[i].key = key

\* The measurements of a page whose first k elements are off in one way
\* ("absent": not reported, "wide": 25% too wide, "tall": 15% too tall) and
\* whose other elements are rendered as designed.
Page(k, how) ==
    LET keys == {key \in ElementKeys : ~(how = "absent" /\ IndexOf(key) <= k)}
    IN [key \in keys |->
           LET expected == ELEMENT_MAPPING[IndexOf(key)]
           IN IF IndexOf(key) > k THEN EntryAt(expected, 100, 100)
              ELSE IF how = "wide" THEN EntryAt(expected, 125, 100)
              ELSE EntryAt(expected, 100, 115)]

Pages ==
    {Page(k, "absent") : k \in 0..Len(ELEMENT_MAPPING)}
    \cup {Page(Len(ELEMENT_MAPPING), how) : how \in {"wide", "tall"}}

-----------------------------------------------------------------------------
(* The run of run_multi_iteration_with_triage                               *)

Init ==
    /\ MAX_AUTO_ITERATIONS \in 1..MaxIterBound
    /\ MIN_ACCURACY_TARGET \in Targets
    /\ pc = "MEASURING"
    /\ iteration = 1
    /\ iteration_history = << >>
    /\ previous_accuracy = 0
    /\ current_accuracy = 0
    /\ current_html_path = 0
    /\ files = (0 :> 0)
    /\ measurements = << >>
    /\ feedback = << >>
    /\ triage_reports = << >>
    /\ progress_label = "none"
    /\ summary_files = {}
    /\ measure_calls = 0
    /\ patch_results = << >>
    /\ error = "none"
    /\ calls = << >>
    /\ registry = ELEMENT_MAPPING

\* mutant: a gain, not the lack of one, is recorded as a plateau
SummaryGainIsPlateau(history, current, previous) ==
    [iterations_run    |-> Len(history),
     max_iterations    |-> MAX_AUTO_ITERATIONS,
     final_accuracy    |-> IF Len(history) > 0 THEN current ELSE 0,
     target_accuracy   |-> MIN_ACCURACY_TARGET,
     plateau_detected  |-> Len(history) > 1 /\ current - previous >= PLATEAU_THRESHOLD,
     iteration_history |-> history]

\* lines 290-300: iteration_summary.json, from the values the loop left behind
Summary(history, current, previous) ==
    [iterations_run    |-> Len(history),
     max_iterations    |-> MAX_AUTO_ITERATIONS,
     final_accuracy    |-> IF Len(history) > 0 THEN current ELSE 0,
     target_accuracy   |-> MIN_ACCURACY_TARGET,
     plateau_detected  |-> Len(history) > 1 /\ current - previous <= PLATEAU_THRESHOLD,
     iteration_history |-> history]

\* Step 1: run_dom_measurement returns the measurement set m
Measure(m) ==
    /\ pc = "MEASURING"
    /\ measurements' = m
    /\ measure_calls' = measure_calls + 1
    /\ pc' = "ANALYZING"
    /\ calls' = Append(calls, [call |-> "measure", html_path |-> current_html_path])
    /\ UNCHANGED << config, iteration, iteration_history, previous_accuracy,
                    current_accuracy, current_html_path, files, feedback, triage_reports,
                    progress_label, summary_files, patch_results, error >>

\* mutant: the failure is noted and the measurement is taken again
MeasureFailRetry ==
    /\ pc = "MEASURING"
    /\ error = "none"
    /\ measure_calls' = measure_calls + 1
    /\ error' = "RuntimeError: DOM measurement failed"
    /\ pc' = "MEASURING"
    /\ calls' = Append(calls, [call |-> "measure", html_path |-> current_html_path])
    /\ UNCHANGED << config, iteration, iteration_history, previous_accuracy,
                    current_accuracy, current_html_path, files, measurements, feedback,
                    triage_reports, progress_label, summary_files, patch_results >>

\* Step 1: run_dom_measurement raises (non-zero exit of the script, or output
\* that is no JSON); the exception leaves the loop and the function
MeasureFail ==
    /\ pc = "MEASURING"
    /\ measure_calls' = measure_calls + 1
    /\ error' = "RuntimeError: DOM measurement failed"
    /\ pc' = "FAILED"
    /\ calls' = Append(calls, [call |-> "measure", html_path |-> current_html_path])
    /\ UNCHANGED << config, iteration, iteration_history, previous_accuracy,
                    current_accuracy, current_html_path, files, measurements, feedback,
                    triage_reports, progress_label, summary_files, patch_results >>

\* mutant: the history keeps the state of the latest iteration only
AnalyzeKeepsLatest ==
    /\ pc = "ANALYZING"
    /\ \E fb \in {compare_measurements(measurements)} :
       \E acc \in {calculate_accuracy_score(fb)} :
          /\ feedback' = fb
          /\ current_accuracy' = acc
          /\ iteration_history' =
                 << [iteration |-> iteration, accuracy |-> acc, total_issues |-> Len(fb),
                     feedback |-> fb, measurements |-> measurements] >>
    /\ pc' = "DECIDING"
    /\ UNCHANGED << config, calls, iteration, previous_accuracy, current_html_path, files,
                    measurements, triage_reports, progress_label, summary_files,
                    measure_calls, patch_results, error >>

\* Step 2: compare, score, append the iteration state
Analyze ==
    /\ pc = "ANALYZING"
    /\ \E fb \in {compare_measurements(measurements)} :
       \E acc \in {calculate_accuracy_score(fb)} :
          /\ feedback' = fb
          /\ current_accuracy' = acc
          /\ iteration_history' = Append(iteration_history,
                 [iteration |-> iteration, accuracy |-> acc, total_issues |-> Len(fb),
                  feedback |-> fb, measurements |-> measurements])
    /\ pc' = "DECIDING"
    /\ UNCHANGED << config, calls, iteration, previous_accuracy, current_html_path, files,
                    measurements, triage_reports, progress_label, summary_files,
                    measure_calls, patch_results, error >>

\* line 170
AllResolved == Len(feedback) = 0

\* mutant: the target itself does not count as reached
TargetReachedStrict == current_accuracy > MIN_ACCURACY_TARGET

\* line 176
TargetReached == current_accuracy >= MIN_ACCURACY_TARGET

\* mutant: one iteration too many before the budget counts as spent
BudgetExhaustedLate == iteration > MAX_AUTO_ITERATIONS /\ Len(feedback) > 0

\* line 181
BudgetExhausted == iteration >= MAX_AUTO_ITERATIONS /\ Len(feedback) > 0

\* lines 183-197: the diagnostic printed before triage
ProgressLabel ==
    LET improvement == IF iteration > 1 THEN current_accuracy - previous_accuracy ELSE 0
        plateau_detected == improvement <= PLATEAU_THRESHOLD
    IN IF iteration > 1
       THEN (IF plateau_detected THEN "PLATEAU DETECTED" ELSE "PROGRESS MADE")
       ELSE "none"

\* mutant: the budget check comes before the two completion checks
DecideBudgetFirst ==
    /\ pc = "DECIDING"
    /\ IF BudgetExhausted
       THEN /\ progress_label' = ProgressLabel
            /\ triage_reports' = Append(triage_reports,
                   triage_issues(feedback, iteration, iteration_history))
            /\ pc' = "ESCALATED"
            /\ summary_files' = {Summary(iteration_history, current_accuracy,
                                         previous_accuracy)}
       ELSE IF AllResolved \/ TargetReached
       THEN /\ pc' = "SUCCEEDED"
            /\ summary_files' = {Summary(iteration_history, current_accuracy,
                                         previous_accuracy)}
            /\ UNCHANGED << triage_reports, progress_label >>
       ELSE /\ pc' = "PATCHING"
            /\ UNCHANGED << triage_reports, progress_label, summary_files >>
    /\ UNCHANGED << config, calls, iteration, iteration_history, previous_accuracy,
                    current_accuracy, current_html_path, files, measurements, feedback,
                    measure_calls, patch_results, error >>

\* mutant: a plateau before the budget is spent ends the automatic iterations
DecideStopsOnPlateau ==
    /\ pc = "DECIDING"
    /\ IF AllResolved \/ TargetReached
       THEN /\ pc' = "SUCCEEDED"
            /\ summary_files' = {Summary(iteration_history, current_accuracy,
                                         previous_accuracy)}
            /\ UNCHANGED << triage_reports, progress_label >>
       ELSE IF BudgetExhausted \/ ProgressLabel = "PLATEAU DETECTED"
       THEN /\ progress_label' = ProgressLabel
            /\ triage_reports' = Append(triage_reports,
                   triage_issues(feedback, iteration, iteration_history))
            /\ pc' = "ESCALATED"
            /\ summary_files' = {Summary(iteration_history, current_accuracy,
                                         previous_accuracy)}
       ELSE /\ pc' = "PATCHING"
            /\ UNCHANGED << triage_reports, progress_label, summary_files >>
    /\ UNCHANGED << config, calls, iteration, iteration_history, previous_accuracy,
                    current_accuracy, current_html_path, files, measurements, feedback,
                    measure_calls, patch_results, error >>

\* the three checks after the iteration state is saved; a break leaves the
\* loop, and the summary is written on the way out
\* mutant: triage is given the history as it was before this iteration's record
DecideHistoryBefore ==
    /\ pc = "DECIDING"
    /\ IF AllResolved \/ TargetReached
       THEN /\ pc' = "SUCCEEDED"
            /\ summary_files' = {Summary(iteration_history, current_accuracy,
                                         previous_accuracy)}
            /\ UNCHANGED << triage_reports, progress_label >>
       ELSE IF BudgetExhausted
       THEN /\ progress_label' = ProgressLabel
            /\ triage_reports' = Append(triage_reports,
                   triage_issues(feedback, iteration,
                                 SubSeq(iteration_history, 1,
                                        Len(iteration_history) - 1)))
            /\ pc' = "ESCALATED"
            /\ summary_files' = {Summary(iteration_history, current_accuracy,
                                         previous_accuracy)}
       ELSE /\ pc' = "PATCHING"
            /\ UNCHANGED << triage_reports, progress_label, summary_files >>
    /\ UNCHANGED << config, calls, iteration, iteration_history, previous_accuracy,
                    current_accuracy, current_html_path, files, measurements, feedback,
                    measure_calls, patch_results, error >>

Decide ==
    /\ pc = "DECIDING"
    /\ IF AllResolved \/ TargetReached
       THEN /\ pc' = "SUCCEEDED"
            /\ summary_files' = {Summary(iteration_history, current_accuracy,
                                         previous_accuracy)}
            /\ UNCHANGED << triage_reports, progress_label >>
       ELSE IF BudgetExhausted
       THEN /\ progress_label' = ProgressLabel
            /\ triage_reports' = Append(triage_reports,
                   triage_issues(feedback, iteration, iteration_history))
            /\ pc' = "ESCALATED"
            /\ summary_files' = {Summary(iteration_history, current_accuracy,
                                         previous_accuracy)}
       ELSE /\ pc' = "PATCHING"
            /\ UNCHANGED << triage_reports, progress_label, summary_files >>
    /\ UNCHANGED << config, calls, iteration, iteration_history, previous_accuracy,
                    current_accuracy, current_html_path, files, measurements, feedback,
                    measure_calls, patch_results, error >>

\* improve_code: the improved code it returns ("ok": the model's answer, a new
\* content; "api_error": the call failed and the except branch returns the
\* original code)
improve_code(original_code, result) ==
    IF result = "ok" THEN iteration ELSE original_code

\* mutant: the improved version is saved but the loop keeps the old path
PatchKeepsPath(result) ==
    /\ pc = "PATCHING"
    /\ patch_results' = Append(patch_results, result)
    /\ files' = (iteration :> improve_code(files[current_html_path], result)) @@ files
    /\ previous_accuracy' = current_accuracy
    /\ iteration' = iteration + 1
    /\ pc' = "MEASURING"
    /\ calls' = Append(calls, [call |-> "patch", original_code |-> files[current_html_path],
                               feedback |-> feedback,
                               improved_code |-> improve_code(files[current_html_path],
                                                              result)])
    /\ UNCHANGED << config, current_html_path, summary_files, iteration_history,
                    current_accuracy, measurements, feedback, triage_reports,
                    progress_label, measure_calls, error >>

\* Steps 3-6: read the code, improve it, save and render the new version, then
\* the next pass of the for loop (or its end, with the summary)
Patch(result) ==
    /\ pc = "PATCHING"
    /\ patch_results' = Append(patch_results, result)
    /\ files' = (iteration :> improve_code(files[current_html_path], result)) @@ files
    /\ current_html_path' = iteration
    /\ previous_accuracy' = current_accuracy
    /\ IF iteration < MAX_AUTO_ITERATIONS
       THEN /\ iteration' = iteration + 1
            /\ pc' = "MEASURING"
            /\ UNCHANGED summary_files
       ELSE /\ pc' = "DONE"
            /\ summary_files' = {Summary(iteration_history, current_accuracy,
                                         current_accuracy)}
            /\ UNCHANGED iteration
    /\ calls' = Append(calls, [call |-> "patch", original_code |-> files[current_html_path],
                               feedback |-> feedback,
                               improved_code |-> improve_code(files[current_html_path],
                                                              result)])
    /\ UNCHANGED << config, iteration_history, current_accuracy, measurements, feedback,
                    triage_reports, progress_label, measure_calls, error >>

\* Steps 3-6 raise: improve_code finds no ANTHROPIC_API_KEY, or a file cannot
\* be read or written; the exception leaves the loop and the function
PatchRaise ==
    /\ pc = "PATCHING"
    /\ patch_results' = Append(patch_results, "raised")
    /\ error' = "ValueError: ANTHROPIC_API_KEY not found"
    /\ pc' = "FAILED"
    /\ calls' = Append(calls, [call |-> "patch", original_code |-> files[current_html_path],
                               feedback |-> feedback])
    /\ UNCHANGED << config, iteration, iteration_history, previous_accuracy,
                    current_accuracy, current_html_path, files, measurements, feedback,
                    triage_reports, progress_label, summary_files, measure_calls >>

Next ==
    \/ \E m \in Pages : Measure(m)
    \/ MeasureFail
    \/ Analyze
    \/ Decide
    \/ \E result \in {"ok", "api_error"} : Patch(result)
    \/ PatchRaise

Spec == Init /\ [][Next]_vars

\* the calls of the collaborators return or raise: a step that can be taken is taken
FairSpec == Spec /\ WF_vars(Next)

-----------------------------------------------------------------------------
(* The Deviation Analyzer on its own: compare_measurements called once on   *)
(* a measurement set.                                                       *)

\* percentages of an expected length the measurements take
Percents == {79, 80, 89, 90, 100, 110, 111, 120, 121}

\* the font sizes measured, in percent of the expected font size
FontPercents == {75, 85, 111, 115, 121, 133}

\* the lengths (hundredths of a pixel) measured against an expected length:
\* the percentages, and one hundredth beyond the 10% and 20% marks
Lengths(expected) ==
    {expected * p : p \in Percents}
    \cup {expected * 110 + 1, expected * 90 - 1, expected * 120 + 1, expected * 80 - 1}

\* the entries an element can have in a measurement set
Entries(expected) ==
    LET ew == expected.expected_width * 100
        eh == expected.expected_height * 100
        ef == ExpectedFont(expected) * 100
    IN {Entry(w, eh, ef) : w \in Lengths(expected.expected_width)}
       \cup {Entry(ew, h, ef) : h \in Lengths(expected.expected_height)}
       \cup {Entry(expected.expected_width * 121, expected.expected_height * 111, ef)}
       \cup {Entry(ew, eh, ExpectedFont(expected) * p) : p \in FontPercents}
       \cup {Entry(ew, eh + 800, ef)}
       \cup {[found |-> FALSE, dimensions |-> [width |-> ew, height |-> eh],
              styles |-> [fontSize |-> [kind |-> "px", n |-> ef]]],
             [found |-> FALSE, dimensions |-> [width |-> 0, height |-> eh * 2]],
             [found |-> FALSE],
             [dimensions |-> [width |-> ew, height |-> eh]],
             [found |-> TRUE],
             [found |-> TRUE, dimensions |-> [width |-> ew]],
             << >>}

\* measurement sets: one element takes any of its entries (or is left out),
\* the others are all rendered as designed or all left out
MeasurementSets ==
    UNION { LET expected == ELEMENT_MAPPING[i]
                others == IF rest = "exact" THEN ElementKeys \ {expected.key} ELSE {}
                base == [key \in others |-> EntryAt(ELEMENT_MAPPING[IndexOf(key)], 100, 100)]
            IN {base} \cup {(expected.key :> e) @@ base : e \in Entries(expected)}
          : i \in 1..Len(ELEMENT_MAPPING), rest \in {"exact", "absent"} }

\* what a measurement set can hold under a key that is not in ELEMENT_MAPPING
UnknownEntries == {Entry(100000, 5000, 3200), [found |-> FALSE]}

\* the measurement sets, and the same with an entry for an unknown element
AnalyzerInputs ==
    MeasurementSets
    \cup {("footer" :> e) @@ m : e \in UnknownEntries, m \in MeasurementSets}

AnalyzerInit ==
    /\ MAX_AUTO_ITERATIONS = 2
    /\ MIN_ACCURACY_TARGET = 85
    /\ pc = "CALL"
    /\ measurements \in AnalyzerInputs
    /\ iteration = 1
    /\ iteration_history = << >>
    /\ previous_accuracy = 0
    /\ current_accuracy = 0
    /\ current_html_path = 0
    /\ files = (0 :> 0)
    /\ feedback = << >>
    /\ triage_reports = << >>
    /\ progress_label = "none"
    /\ summary_files = {}
    /\ measure_calls = 0
    /\ patch_results = << >>
    /\ error = "none"
    /\ calls = << >>
    /\ registry = ELEMENT_MAPPING

\* feedback = compare_measurements(dom_measurements)
CallCompare ==
    /\ pc = "CALL"
    /\ feedback' = compare_measurements(measurements)
    /\ pc' = "RETURNED"
    /\ UNCHANGED << config, calls, iteration, iteration_history, previous_accuracy,
                    current_accuracy, current_html_path, files, measurements,
                    triage_reports, progress_label, summary_files, measure_calls,
                    patch_results, error >>

\* mutant: the list the items are appended to outlives the call
CallCompareAgainAccumulating ==
    /\ pc = "RETURNED"
    /\ feedback' = feedback \o compare_measurements(measurements)
    /\ pc' = "REPEATED"
    /\ UNCHANGED << config, calls, iteration, iteration_history, previous_accuracy,
                    current_accuracy, current_html_path, files, measurements,
                    triage_reports, progress_label, summary_files, measure_calls,
                    patch_results, error >>

\* a second call with the same dom_measurements: line 83 starts a new list
CallCompareAgain ==
    /\ pc = "RETURNED"
    /\ feedback' = << >> \o compare_measurements(measurements)
    /\ pc' = "REPEATED"
    /\ UNCHANGED << config, calls, iteration, iteration_history, previous_accuracy,
                    current_accuracy, current_html_path, files, measurements,
                    triage_reports, progress_label, summary_files, measure_calls,
                    patch_results, error >>

AnalyzerNext == CallCompare \/ CallCompareAgain

AnalyzerSpec == AnalyzerInit /\ [][AnalyzerNext]_vars

-----------------------------------------------------------------------------
(* The Deviation Analyzer over a supplied registry (RegistrySpec):          *)
(* compare_measurements as it runs when ELEMENT_MAPPING holds an entry      *)
(* without expected_width and expected_height.                              *)

\* a structural container with no numeric expectation
Container ==
    [key |-> "right_column", figma_id |-> "157:799", figma_name |-> "right column",
     type |-> "container"]

Registries ==
    {ELEMENT_MAPPING, Append(ELEMENT_MAPPING, Container), << Container >> \o ELEMENT_MAPPING}

\* lines 106 and 120: expected['expected_width'] and expected['expected_height']
\* are subscripts, evaluated for every element that was found
KeyErrorOf(dom_measurements, expected) ==
    IF NotFound(dom_measurements, expected.key) THEN "none"
    ELSE IF "expected_width" \notin DOMAIN expected THEN "KeyError: 'expected_width'"
    ELSE IF "expected_height" \notin DOMAIN expected THEN "KeyError: 'expected_height'"
    ELSE "none"

\* the for loop of line 85 over the entries of mapping from the i-th on: the
\* list it returns, or the exception that leaves it
RECURSIVE OutcomeFrom(_, _, _)
OutcomeFrom(mapping, dom_measurements, i) ==
    IF i > Len(mapping) THEN [raised |-> "none", feedback |-> << >>]
    ELSE IF KeyErrorOf(dom_measurements, mapping[i]) # "none"
    THEN [raised |-> KeyErrorOf(dom_measurements, mapping[i]), feedback |-> << >>]
    ELSE LET rest == OutcomeFrom(mapping, dom_measurements, i + 1)
         IN IF rest.raised # "none" THEN rest
            ELSE [raised |-> "none",
                  feedback |-> ElementFeedback(dom_measurements, mapping[i])
                               \o rest.feedback]

\* what the measurement collaborator reports for the container
ContainerEntries ==
    {<< >>, [found |-> FALSE],
     [found |-> TRUE, dimensions |-> [width |-> 50000, height |-> 30000]]}

RegistryPages ==
    Pages \cup {(Container.key :> e) @@ page : e \in ContainerEntries, page \in Pages}

RegistryInit ==
    /\ MAX_AUTO_ITERATIONS = 2
    /\ MIN_ACCURACY_TARGET = 85
    /\ pc = "CALL"
    /\ registry \in Registries
    /\ measurements \in RegistryPages
    /\ iteration = 1
    /\ iteration_history = << >>
    /\ previous_accuracy = 0
    /\ current_accuracy = 0
    /\ current_html_path = 0
    /\ files = (0 :> 0)
    /\ feedback = << >>
    /\ triage_reports = << >>
    /\ progress_label = "none"
    /\ summary_files = {}
    /\ measure_calls = 0
    /\ patch_results = << >>
    /\ error = "none"
    /\ calls = << >>

\* feedback = compare_measurements(dom_measurements), or the KeyError it raises
CallCompareRegistry ==
    /\ pc = "CALL"
    /\ \E outcome \in {OutcomeFrom(registry, measurements, 1)} :
          IF outcome.raised = "none"
          THEN /\ feedback' = outcome.feedback
               /\ pc' = "RETURNED"
               /\ UNCHANGED error
          ELSE /\ error' = outcome.raised
               /\ pc' = "RAISED"
               /\ UNCHANGED feedback
    /\ UNCHANGED << config, calls, iteration, iteration_history, previous_accuracy,
                    current_accuracy, current_html_path, files, measurements,
                    triage_reports, progress_label, summary_files, measure_calls,
                    patch_results >>

RegistryNext == CallCompareRegistry

RegistrySpec == RegistryInit /\ [][RegistryNext]_vars

-----------------------------------------------------------------------------
(* scripts/run_improvement_loop_with_measurements.py: run_improvement_loop, *)
(* one pass of measure, compare, improve, measure again (LoopSpec)          *)

LoopInit ==
    /\ MAX_AUTO_ITERATIONS = 2
    /\ MIN_ACCURACY_TARGET = 85
    /\ pc = "STEP1"
    /\ measurements = << >>
    /\ iteration = 1
    /\ iteration_history = << >>
    /\ previous_accuracy = 0
    /\ current_accuracy = 0
    /\ current_html_path = 0
    /\ files = (0 :> 0)
    /\ feedback = << >>
    /\ triage_reports = << >>
    /\ progress_label = "none"
    /\ summary_files = {}
    /\ measure_calls = 0
    /\ patch_results = << >>
    /\ error = "none"
    /\ calls = << >>
    /\ registry = ELEMENT_MAPPING

\* the JSON file of lines 177-187 and 249-259
MeasurementsFile(name, m, fb) ==
    [file |-> name, measurements |-> m, feedback |-> fb,
     accuracy_score |-> calculate_accuracy_score(fb), total_issues |-> Len(fb),
     high_priority |-> Len(SelectSeq(fb, LAMBDA f : f.priority = "high")),
     medium_priority |-> Len(SelectSeq(fb, LAMBDA f : f.priority = "medium")),
     low_priority |-> Len(SelectSeq(fb, LAMBDA f : f.priority = "low"))]

\* Steps 1 and 2: measure the page, compare, score; return when nothing is off
LoopMeasureBefore(m) ==
    /\ pc = "STEP1"
    /\ measurements' = m
    /\ measure_calls' = measure_calls + 1
    /\ calls' = Append(calls, [call |-> "measure", html_path |-> current_html_path])
    /\ \E fb \in {compare_measurements(m)} :
          /\ feedback' = fb
          /\ current_accuracy' = calculate_accuracy_score(fb)
          /\ pc' = IF Len(fb) = 0 THEN "RETURNED" ELSE "FORMAT"
    /\ UNCHANGED << config, iteration, iteration_history, previous_accuracy,
                    current_html_path, files, triage_reports, progress_label,
                    summary_files, patch_results, error >>

\* line 173: formatted_feedback = format_feedback_for_agent(feedback), printed
LoopFormat ==
    /\ pc = "FORMAT"
    /\ feedback' = format_feedback_for_agent(feedback).feedback
    /\ pc' = "SAVE_BEFORE"
    /\ UNCHANGED << config, calls, iteration, iteration_history, previous_accuracy,
                    current_accuracy, current_html_path, files, measurements,
                    triage_reports, progress_label, summary_files, measure_calls,
                    patch_results, error >>

\* lines 176-188: the before-measurements file
LoopSaveBefore ==
    /\ pc = "SAVE_BEFORE"
    /\ summary_files' = summary_files
          \cup {MeasurementsFile("before_measurements", measurements, feedback)}
    /\ pc' = "STEP3"
    /\ UNCHANGED << config, calls, iteration, iteration_history, previous_accuracy,
                    current_accuracy, current_html_path, files, measurements, feedback,
                    triage_reports, progress_label, measure_calls, patch_results, error >>

\* Steps 3-5: read the code, improve it, save and render the improved version
LoopImprove(result) ==
    /\ pc = "STEP3"
    /\ patch_results' = Append(patch_results, result)
    /\ calls' = Append(calls, [call |-> "patch", original_code |-> files[current_html_path],
                               feedback |-> feedback,
                               improved_code |-> improve_code(files[current_html_path],
                                                              result)])
    /\ files' = (1 :> improve_code(files[current_html_path], result)) @@ files
    /\ pc' = "STEP6"
    /\ UNCHANGED << config, iteration, iteration_history, previous_accuracy,
                    current_accuracy, current_html_path, measurements, feedback,
                    triage_reports, progress_label, summary_files, measure_calls, error >>

\* Steps 6-8: measure the improved version, compare, save the after file
LoopMeasureAfter(m) ==
    /\ pc = "STEP6"
    /\ measure_calls' = measure_calls + 1
    /\ calls' = Append(calls, [call |-> "measure", html_path |-> 1])
    /\ \E fb \in {compare_measurements(m)} :
          /\ summary_files' = summary_files
                \cup {MeasurementsFile("after_measurements", m, fb)}
          /\ previous_accuracy' = current_accuracy
          /\ current_accuracy' = calculate_accuracy_score(fb)
    /\ pc' = "DONE"
    /\ UNCHANGED << config, iteration, iteration_history, current_html_path, files,
                    measurements, feedback, triage_reports, progress_label,
                    patch_results, error >>

\* run_dom_measurement or improve_code raises: the exception leaves the function
LoopRaise ==
    /\ pc \in {"STEP1", "STEP3", "STEP6"}
    /\ error' = IF pc = "STEP3" THEN "ValueError: ANTHROPIC_API_KEY not found"
                ELSE "RuntimeError: DOM measurement failed"
    /\ pc' = "FAILED"
    /\ UNCHANGED << config, calls, iteration, iteration_history, previous_accuracy,
                    current_accuracy, current_html_path, files, measurements, feedback,
                    triage_reports, progress_label, summary_files, measure_calls,
                    patch_results >>

\* the pages measured before the improvement, and after it
LoopPagesBefore == Pages \cup MeasurementSets

\* scripts/evaluate_with_measurements.py: evaluate_with_measurements, the other
\* caller of format_feedback_for_agent; the dict of lines 75-83 holds the list
\* itself under 'feedback' and is saved after the call of line 82
Evaluate(m) ==
    /\ pc = "STEP1"
    /\ measurements' = m
    /\ measure_calls' = measure_calls + 1
    /\ calls' = Append(calls, [call |-> "measure", html_path |-> current_html_path])
    /\ \E fb \in {compare_measurements(m)} :
       \E formatted \in {format_feedback_for_agent(fb)} :
          /\ feedback' = formatted.feedback
          /\ summary_files' = summary_files
                \cup {[file |-> "measurement_feedback", total_issues |-> Len(fb),
                       measurements |-> m, feedback |-> formatted.feedback,
                       formatted_feedback |-> formatted.output]}
    /\ pc' = "EVALUATED"
    /\ UNCHANGED << config, iteration, iteration_history, previous_accuracy,
                    current_accuracy, current_html_path, files, triage_reports,
                    progress_label, patch_results, error >>

LoopPagesAfter == {Page(0, "absent"), Page(Len(ELEMENT_MAPPING), "tall")}

LoopNext ==
    \/ \E m \in LoopPagesBefore : LoopMeasureBefore(m)
    \/ LoopFormat
    \/ LoopSaveBefore
    \/ \E result \in {"ok", "api_error"} : LoopImprove(result)
    \/ \E m \in LoopPagesAfter : LoopMeasureAfter(m)
    \/ LoopRaise
    \/ \E m \in LoopPagesBefore : Evaluate(m)

LoopSpec == LoopInit /\ [][LoopNext]_vars

-----------------------------------------------------------------------------
(* The Accuracy Scorer called on its own (ScorerSpec)                       *)

HighCounts == {0, 1, 2, 19, 20, 21, 30}

\* an issue of the given priority; what else it holds varies with k
ScoreItem(priority, k) ==
    [priority |-> priority,
     category |-> IF k % 2 = 0 THEN "dimension" ELSE "missing_element",
     element  |-> NamesInOrder[(k % Len(NamesInOrder)) + 1]]

\* h high, m medium and l low issues, in this order
ScoreList(h, m, l) ==
    [k \in 1..(h + m + l) |->
        ScoreItem(IF k <= h THEN "high" ELSE IF k <= h + m THEN "medium" ELSE "low", k)]

Reversed(seq) == [k \in 1..Len(seq) |-> seq[Len(seq) + 1 - k]]

ScoreLists ==
    UNION { {ScoreList(h, m, l), Reversed(ScoreList(h, m, l))}
            : h \in HighCounts, m \in 0..3, l \in 0..3 }

ScorerInit ==
    /\ MAX_AUTO_ITERATIONS = 2
    /\ MIN_ACCURACY_TARGET = 85
    /\ pc = "SCORE"
    /\ feedback \in ScoreLists
    /\ measurements = << >>
    /\ iteration = 1
    /\ iteration_history = << >>
    /\ previous_accuracy = 0
    /\ current_accuracy = 0
    /\ current_html_path = 0
    /\ files = (0 :> 0)
    /\ triage_reports = << >>
    /\ progress_label = "none"
    /\ summary_files = {}
    /\ measure_calls = 0
    /\ patch_results = << >>
    /\ error = "none"
    /\ calls = << >>
    /\ registry = ELEMENT_MAPPING

\* current_accuracy = calculate_accuracy_score(feedback)
CallScore ==
    /\ pc = "SCORE"
    /\ current_accuracy' = calculate_accuracy_score(feedback)
    /\ pc' = "SCORED"
    /\ UNCHANGED << config, calls, iteration, iteration_history, previous_accuracy,
                    current_html_path, files, measurements, feedback, triage_reports,
                    progress_label, summary_files, measure_calls, patch_results, error >>

ScorerNext == CallScore

ScorerSpec == ScorerInit /\ [][ScorerNext]_vars

-----------------------------------------------------------------------------
(* Triage called on its own (TriageSpec)                                    *)

Items(seq) == {seq[k] : k \in 1..Len(seq)}

\* issues as the analyzer makes them: a missing element; a title that is 25%
\* too wide, 15% too tall and set 33% too large; an image 15% too wide and
\* 25% too tall
AnalyzerIssues ==
    compare_measurements(Page(1, "absent"))
    \o compare_measurements(
           ("product_title" :> Entry(500 * 125, 24 * 115, 24 * 133))
           @@ Page(0, "absent"))
    \o compare_measurements(
           ("main_product_image" :> Entry(576 * 115, 720 * 125, 1600))
           @@ Page(0, "absent"))

\* an issue of another caller, with the fields of a feedback item
OtherIssue(id, priority, category, element, text) ==
    [priority |-> priority, category |-> category, element |-> element,
     figma_id |-> id, issue |-> [text |-> text, actual |-> 0, expected |-> 0],
     fix |-> [text |-> "Review manually", value |-> 0]]

OtherIssues ==
    << OtherIssue("1:1", "medium", "typography", "romance copy", "Text line-height too tight"),
       OtherIssue("1:2", "medium", "spacing", "left column", "Padding is 8px, should be 16px"),
       OtherIssue("1:3", "high", "spacing", "left column", "Padding is 8px, should be 16px"),
       OtherIssue("1:4", "medium", "dimension", "left column",
                  "Column too wide, caption missing"),
       OtherIssue("1:5", "low", "typography", "Font label", "Total height differs") >>

\* every sample issue once
AllSamples == AnalyzerIssues \o OtherIssues

SampleIssues == Items(AllSamples)

\* the issue lists handed to triage
IssueLists ==
    {<< >>} \cup {<<x>> : x \in SampleIssues}
    \cup {<<x, y>> : x \in SampleIssues, y \in SampleIssues}
    \cup {AllSamples, Reversed(AllSamples)}

\* an iteration_history of n records
HistoryOf(n) ==
    [k \in 1..n |-> [iteration |-> k, accuracy |-> 0, total_issues |-> 0,
                     feedback |-> << >>, measurements |-> << >>]]

TriageInit ==
    /\ MAX_AUTO_ITERATIONS = 2
    /\ MIN_ACCURACY_TARGET = 85
    /\ pc = "TRIAGE"
    /\ feedback \in IssueLists
    /\ iteration_history \in {HistoryOf(n) : n \in 0..3}
    /\ iteration \in 1..2
    /\ measurements = << >>
    /\ previous_accuracy = 0
    /\ current_accuracy = 0
    /\ current_html_path = 0
    /\ files = (0 :> 0)
    /\ triage_reports = << >>
    /\ progress_label = "none"
    /\ summary_files = {}
    /\ measure_calls = 0
    /\ patch_results = << >>
    /\ error = "none"
    /\ calls = << >>
    /\ registry = ELEMENT_MAPPING

\* triage_report = triage_issues(issues, iteration_count, iteration_history)
CallTriage ==
    /\ pc = "TRIAGE"
    /\ triage_reports' = << triage_issues(feedback, iteration, iteration_history) >>
    /\ pc' = "TRIAGED"
    /\ UNCHANGED << config, calls, iteration, iteration_history, previous_accuracy,
                    current_accuracy, current_html_path, files, measurements, feedback,
                    progress_label, summary_files, measure_calls, patch_results, error >>

TriageNext == CallTriage

TriageSpec == TriageInit /\ [][TriageNext]_vars

-----------------------------------------------------------------------------
(* Properties of the Iteration Controller (Spec, FairSpec)                  *)

LastRecord == iteration_history[Len(iteration_history)]

\* an iteration record that ends the run with success: no issue, or the target met
RecordSucceeds(r) == r.total_issues = 0 \/ r.accuracy >= MIN_ACCURACY_TARGET

MeasureError == "RuntimeError: DOM measurement failed"

\* C1: when the iteration whose index is the configured maximum has been
\* analysed with a non-empty issue list and a score below the target, the
\* step the controller takes runs triage on that list, saves one TriageReport
\* whose iterations_attempted is that index and enters ESCALATED; from
\* ESCALATED no measure or patch call follows.
C1_EscalatesAtBudget ==
    [][ /\ ( /\ pc = "DECIDING"
             /\ iteration = MAX_AUTO_ITERATIONS
             /\ Len(feedback) > 0
             /\ current_accuracy < MIN_ACCURACY_TARGET )
           => /\ pc' = "ESCALATED"
              /\ Len(triage_reports') = Len(triage_reports) + 1
              /\ LET r == triage_reports'[Len(triage_reports')]
                 IN /\ r.summary.iterations_attempted = iteration
                    /\ r.summary.total_issues = Len(feedback)
                    /\ Len(r.auto_fixable_issues) + Len(r.designer_questions)
                          = Len(feedback)
                    /\ \A i \in 1..Len(feedback) :
                          \/ \E j \in 1..Len(r.auto_fixable_issues) :
                                r.auto_fixable_issues[j] = feedback[i]
                          \/ \E j \in 1..Len(r.designer_questions) :
                                /\ r.designer_questions[j].figma_id = feedback[i].figma_id
                                /\ r.designer_questions[j].issue = feedback[i].issue
        /\ pc = "ESCALATED"
           => /\ pc' = "ESCALATED"
              /\ measure_calls' = measure_calls
              /\ patch_results' = patch_results ]_vars

C1_Witness ==
    /\ pc = "ESCALATED"
    /\ MAX_AUTO_ITERATIONS = 2
    /\ Len(triage_reports) = 1
    /\ triage_reports[1].summary.iterations_attempted = 2
    /\ measure_calls = 2

\* C2: the run ends SUCCEEDED at the first iteration whose issue list is empty
\* or whose score is at least the target: no iteration follows such a record,
\* such a record is never patched or escalated (also at the maximum index),
\* and a first measurement without issues succeeds with a history of length 1
\* and no patch call.
C2_SucceedsAtFirstQualifying ==
    /\ \A k \in 1..Len(iteration_history) :
          RecordSucceeds(iteration_history[k])
             => k = Len(iteration_history) /\ pc \in {"DECIDING", "SUCCEEDED"}
    /\ pc = "SUCCEEDED"
          => /\ Len(iteration_history) >= 1
             /\ RecordSucceeds(LastRecord)
             /\ Len(patch_results) = Len(iteration_history) - 1
    /\ (pc = "SUCCEEDED" /\ iteration_history[1].total_issues = 0)
          => Len(iteration_history) = 1 /\ patch_results = << >>

C2_Witness ==
    /\ pc = "SUCCEEDED"
    /\ iteration = MAX_AUTO_ITERATIONS
    /\ iteration >= 2
    /\ Len(feedback) > 0
    /\ current_accuracy >= MIN_ACCURACY_TARGET

\* C3: the history never holds more than MAX_AUTO_ITERATIONS records, no more
\* than MAX_AUTO_ITERATIONS measurements are taken, and every run whose
\* collaborator calls all return reaches SUCCEEDED or ESCALATED (a run ends
\* FAILED only when a call raises).
C3_Terminates ==
    /\ [](/\ Len(iteration_history) <= MAX_AUTO_ITERATIONS
          /\ measure_calls <= MAX_AUTO_ITERATIONS)
    /\ <>(pc \in {"SUCCEEDED", "ESCALATED", "FAILED"})

C3_Witness ==
    /\ pc \in {"SUCCEEDED", "ESCALATED"}
    /\ MAX_AUTO_ITERATIONS >= 2
    /\ measure_calls = MAX_AUTO_ITERATIONS
    /\ Len(iteration_history) = MAX_AUTO_ITERATIONS

\* C4: a failure of the patch collaborator is fatal for the run: once an
\* improve_code call has failed, the run is in FAILED with the error
\* surfaced, and not measuring again or ending as if the patch was applied.
C4_PatchFailureIsFatal ==
    (\E i \in 1..Len(patch_results) : patch_results[i] \in {"api_error", "raised"})
       => pc = "FAILED" /\ error # "none"

\* C5: when run_dom_measurement fails, the run aborts with the error and the
\* measurement is not taken again: no record is appended for that iteration
\* and no analysis, patch or triage follows.
C5_MeasureFailureAborts ==
    error = MeasureError
       => /\ pc = "FAILED"
          /\ measure_calls = iteration
          /\ Len(iteration_history) = iteration - 1
          /\ Len(patch_results) = iteration - 1
          /\ triage_reports = << >>

C5_Witness ==
    /\ error = MeasureError
    /\ pc = "FAILED"
    /\ iteration = 2
    /\ Len(iteration_history) = 1

\* C6: every run that has ended, also by a fatal collaborator error after one
\* or more completed iterations, has left a summary holding the whole
\* iteration_history, its length as iterations_run, the last score as
\* final_accuracy, and the target.
C6_SummaryAlwaysWritten ==
    (pc \in {"SUCCEEDED", "ESCALATED", "FAILED"} /\ Len(iteration_history) >= 1)
       => \E s \in summary_files :
             /\ s.iteration_history = iteration_history
             /\ s.iterations_run = Len(iteration_history)
             /\ s.final_accuracy = LastRecord.accuracy
             /\ s.target_accuracy = MIN_ACCURACY_TARGET

\* C7: whenever the run is ESCALATED, whatever the configured maximum (>= 1),
\* the TriageReport holds at least one DesignerQuestion.
C7_EscalationHasQuestions ==
    pc = "ESCALATED"
       => /\ Len(triage_reports) >= 1
          /\ Len(triage_reports[Len(triage_reports)].designer_questions) >= 1

\* C8 as claimed: a run that has stopped with a non-empty latest issue list
\* has produced exactly one TriageReport, a run that has stopped with an
\* empty one has produced none.
C8_TriageWheneverIssuesRemain ==
    pc \in {"SUCCEEDED", "ESCALATED"}
       => Len(triage_reports) = (IF Len(feedback) > 0 THEN 1 ELSE 0)

\* C8 amended: exactly one TriageReport is produced in a run that ends
\* ESCALATED, which is a run that stops at the iteration budget with a
\* non-empty issue list and a score below the target; no other run produces
\* one, and a run that ends SUCCEEDED has no issue left or has met the target
\* (with issues left when the target is met, and still no TriageReport).
C8_TriageOnlyOnEscalation ==
    /\ Len(triage_reports) = (IF pc = "ESCALATED" THEN 1 ELSE 0)
    /\ pc = "ESCALATED"
          => /\ Len(feedback) > 0
             /\ current_accuracy < MIN_ACCURACY_TARGET
             /\ iteration = MAX_AUTO_ITERATIONS
    /\ pc = "SUCCEEDED"
          => Len(feedback) = 0 \/ current_accuracy >= MIN_ACCURACY_TARGET

C8_Witness ==
    /\ pc = "ESCALATED"
    /\ Len(triage_reports) = 1
    /\ triage_reports[1].summary.total_issues = Len(feedback)
    /\ Len(feedback) > 0

-----------------------------------------------------------------------------
(* Properties of the Deviation Analyzer (AnalyzerSpec)                      *)

\* the feedback items that carry the source id of a registry element
IssuesOf(fb, expected) == SelectSeq(fb, LAMBDA x : x.figma_id = expected.figma_id)

\* the feedback items of a registry element with a given issue text
IssuesAbout(fb, expected, text) ==
    SelectSeq(fb, LAMBDA x : x.figma_id = expected.figma_id /\ x.issue.text = text)

Abs(x) == IF x < 0 THEN 0 - x ELSE x

\* C9: an element with no entry in the measurement set, or with found = false
\* whatever else its entry holds, gets exactly one issue, of category
\* missing_element and priority high, and no dimension or typography issue.
C9_MissingElement ==
    pc = "RETURNED"
       => \A i \in 1..Len(ELEMENT_MAPPING) :
             LET expected == ELEMENT_MAPPING[i]
                 key      == expected.key
                 mine     == IssuesOf(feedback, expected)
             IN ( \/ key \notin DOMAIN measurements
                  \/ /\ "found" \in DOMAIN measurements[key]
                     /\ measurements[key].found = FALSE )
                => /\ Len(mine) = 1
                   /\ mine[1].category = "missing_element"
                   /\ mine[1].priority = "high"

C9_Witness ==
    /\ pc = "RETURNED"
    /\ \E key \in DOMAIN measurements :
          /\ "found" \in DOMAIN measurements[key]
          /\ measurements[key].found = FALSE
          /\ "dimensions" \in DOMAIN measurements[key]
          /\ measurements[key].dimensions.width = 0
    /\ Len(feedback) = 1
    /\ feedback[1].category = "missing_element"

\* does the feedback report the length n (hundredths of a pixel) measured
\* against the expected length as the claim says: an issue exactly when
\* |n/100 - expected| / expected * 100 > 10, high exactly when it is > 20
ReportedAsClaimed(issues, n, expected) ==
    LET off == Abs(n - 100 * expected)
    IN /\ Len(issues) = (IF off > 10 * expected THEN 1 ELSE 0)
       /\ \A j \in 1..Len(issues) :
             issues[j].priority = (IF off > 20 * expected THEN "high" ELSE "medium")

\* C10: for a found element, a width or height issue is emitted exactly when
\* the deviation from the expected value is strictly more than 10%, with
\* priority high when it is strictly more than 20% and medium otherwise; so
\* 100%, 110% and 90% of the expected value give no issue, 111% and 89% a
\* medium one, 121% and 79% a high one.
C10_DeviationThreshold ==
    pc = "RETURNED"
       => \A i \in 1..Len(ELEMENT_MAPPING) :
             LET expected == ELEMENT_MAPPING[i]
                 key      == expected.key
             IN ( /\ key \in DOMAIN measurements
                  /\ "found" \in DOMAIN measurements[key]
                  /\ measurements[key].found = TRUE )
                => LET dims == Get(measurements[key], "dimensions", << >>)
                   IN /\ ReportedAsClaimed(IssuesAbout(feedback, expected, "Width is"),
                                           Get(dims, "width", 0), expected.expected_width)
                      /\ ReportedAsClaimed(IssuesAbout(feedback, expected, "Height is"),
                                           Get(dims, "height", 0), expected.expected_height)

\* C11: for a found text element with an expected font size, a font size
\* that is off by more than 10% gives exactly one typography issue, and its
\* priority follows the rule of width and height: high when the font size is
\* off by more than 20%, medium otherwise.
C11_FontPriorityFollowsRule ==
    pc = "RETURNED"
       => \A i \in 1..Len(ELEMENT_MAPPING) :
             LET expected == ELEMENT_MAPPING[i]
                 key      == expected.key
             IN ( /\ key \in DOMAIN measurements
                  /\ "found" \in DOMAIN measurements[key]
                  /\ measurements[key].found = TRUE
                  /\ expected.type = "text"
                  /\ "expected_font_size" \in DOMAIN expected
                  /\ "styles" \in DOMAIN measurements[key] )
                => LET n      == measurements[key].styles.fontSize.n
                       off    == Abs(n - 100 * expected.expected_font_size)
                       issues == IssuesAbout(feedback, expected, "Font size is")
                   IN off > 10 * expected.expected_font_size
                         => /\ Len(issues) = 1
                            /\ issues[1].category = "typography"
                            /\ issues[1].priority
                                  = (IF off > 20 * expected.expected_font_size
                                     THEN "high" ELSE "medium")

\* C12: the issue list compare_measurements returns is ordered by priority
\* (high, medium, low) and, within one priority, by display name.
C12_FeedbackOrdered ==
    pc = "RETURNED"
       => \A i \in 1..Len(feedback) : \A j \in i..Len(feedback) :
             KeyLeq(feedback[i], feedback[j])

-----------------------------------------------------------------------------
(* Properties of the Accuracy Scorer (ScorerSpec)                           *)

CountOf(fb, priority) == Cardinality({k \in 1..Len(fb) : fb[k].priority = priority})

\* C14: the score of an issue list is 100 - 5 * (high issues) - 2 * (medium
\* issues) - 1 * (low issues), held at 0 from below; it lies in 0..100, the
\* empty list scores 100, two high issues score 90, 30 high issues score 0.
C14_ScoreFormula ==
    pc = "SCORED"
       => LET raw == 100 - 5 * CountOf(feedback, "high") - 2 * CountOf(feedback, "medium")
                         - CountOf(feedback, "low")
          IN /\ current_accuracy = (IF raw < 0 THEN 0 ELSE raw)
             /\ current_accuracy \in 0..100
             /\ feedback = << >> => current_accuracy = 100
             /\ (Len(feedback) = 2 /\ CountOf(feedback, "high") = 2)
                   => current_accuracy = 90
             /\ CountOf(feedback, "high") = 30 => current_accuracy = 0

C14_Witness ==
    /\ pc = "SCORED"
    /\ CountOf(feedback, "high") = 30
    /\ Len(feedback) = 30
    /\ current_accuracy = 0

-----------------------------------------------------------------------------
(* Scenarios and data errors of the Deviation Analyzer (AnalyzerSpec)       *)

\* the measurement set of the scenario: the element expected at 500 x 24 is
\* found at 500 x 32, the other elements are rendered as designed
TitleTaller ==
    /\ pc = "RETURNED"
    /\ \E i \in 1..Len(ELEMENT_MAPPING) :
          LET expected == ELEMENT_MAPPING[i]
          IN /\ expected.expected_width = 500
             /\ expected.expected_height = 24
             /\ measurements =
                   (expected.key :> Entry(50000, 3200, ExpectedFont(expected) * 100))
                   @@ [key \in ElementKeys |->
                          EntryAt(ELEMENT_MAPPING[IndexOf(key)], 100, 100)]

\* C15 as claimed: the scenario gives exactly one issue, a dimension issue of
\* priority medium about the height, and the list scores 98.
C15_TitleTallerIsMedium ==
    TitleTaller
       => /\ Len(feedback) = 1
          /\ feedback[1].category = "dimension"
          /\ feedback[1].issue.text = "Height is"
          /\ feedback[1].priority = "medium"
          /\ calculate_accuracy_score(feedback) = 98

\* C15 amended: the scenario gives exactly one issue, a dimension issue about
\* the height (32 against 24, too tall); 33% is more than 20%, so its priority
\* is high, and the list scores 95.
C15_TitleTallerIsHigh ==
    TitleTaller
       => /\ Len(feedback) = 1
          /\ feedback[1].category = "dimension"
          /\ feedback[1].issue.text = "Height is"
          /\ feedback[1].issue.actual = 3200
          /\ feedback[1].issue.expected = 24
          /\ feedback[1].deviation = "too tall"
          /\ feedback[1].priority = "high"
          /\ calculate_accuracy_score(feedback) = 95

C15_Witness ==
    /\ TitleTaller
    /\ Len(feedback) = 1
    /\ feedback[1].priority = "high"

\* C16: an entry that lacks expected fields (found, but no dimensions, or no
\* width or no height in them) counts as not found: exactly one issue for the
\* element, a missing_element one, and no dimension issue.
C16_IncompleteEntryIsMissing ==
    pc = "RETURNED"
       => \A i \in 1..Len(ELEMENT_MAPPING) :
             LET expected == ELEMENT_MAPPING[i]
                 key      == expected.key
                 mine     == IssuesOf(feedback, expected)
             IN ( /\ key \in DOMAIN measurements
                  /\ "found" \in DOMAIN measurements[key]
                  /\ measurements[key].found = TRUE
                  /\ \/ "dimensions" \notin DOMAIN measurements[key]
                     \/ "width" \notin DOMAIN measurements[key].dimensions
                     \/ "height" \notin DOMAIN measurements[key].dimensions )
                => /\ Len(mine) = 1
                   /\ mine[1].category = "missing_element"

-----------------------------------------------------------------------------
(* Properties of triage (TriageSpec)                                        *)

Report == triage_reports[1]

\* the question the report holds for an issue, if any
QuestionsFor(issue) ==
    SelectSeq(Report.designer_questions,
              LAMBDA q : /\ q.figma_id = issue.figma_id
                         /\ q.issue = issue.issue
                         /\ q.priority = issue.priority)

ListedAutoFixable(issue) ==
    \E j \in 1..Len(Report.auto_fixable_issues) : Report.auto_fixable_issues[j] = issue

\* the four rules of the classifier, in their order
RuleSays(issue, history) ==
    LET numeric  == \E w \in {"width is", "font size is", "font-size is",
                              "too wide", "too narrow"} : InIssueText(w, issue)
        needs    == \E w \in {"element not found", "missing", "height is",
                              "line-height"} : InIssueText(w, issue)
        stuck    == Len(history) >= 2
    IN IF numeric /\ ~stuck THEN "auto-fixable"
       ELSE IF needs THEN "needs-input"
       ELSE IF issue.priority = "high" \/ stuck THEN "needs-input"
       ELSE "auto-fixable"

\* C17: every issue is classified as the four rules say, taken in order, where
\* stuck means a history of at least 2 records: the issues listed as
\* auto-fixable are those the rules call auto-fixable, the others get a
\* question.
C17_RulesInOrder ==
    pc = "TRIAGED"
       => \A i \in 1..Len(feedback) :
             IF RuleSays(feedback[i], iteration_history) = "auto-fixable"
             THEN ListedAutoFixable(feedback[i]) /\ Len(QuestionsFor(feedback[i])) = 0
             ELSE ~ListedAutoFixable(feedback[i]) /\ Len(QuestionsFor(feedback[i])) >= 1

C17_Witness ==
    /\ pc = "TRIAGED"
    /\ Len(iteration_history) < 2
    /\ Len(feedback) = 2
    /\ feedback[1].issue.text = "Width is" /\ feedback[1].priority = "high"
    /\ feedback[2].issue.text = "Height is" /\ feedback[2].priority = "medium"
    /\ Report.auto_fixable_issues = << feedback[1] >>
    /\ Len(Report.designer_questions) = 1
    /\ Report.designer_questions[1].issue = feedback[2].issue

\* the items of seq at the positions where keep holds, in their order
Kept(seq, keep) == LET pos == [k \in 1..Len(seq) |-> k]
                   IN [k \in 1..Len(SelectSeq(pos, LAMBDA n : keep[n]))
                          |-> seq[SelectSeq(pos, LAMBDA n : keep[n])[k]]]

\* what of an issue its question repeats
Asked(x) == [figma_id |-> x.figma_id, issue |-> x.issue, priority |-> x.priority,
             element |-> x.element, category |-> x.category]

\* C18: the report splits the issue list in two: the auto-fixable issues, in
\* their order, and one question for each other issue, in their order; no
\* issue is on both sides, and the counts of the summary are the lengths of
\* the two sides and add up to the length of the list.
C18_TriagePartitions ==
    pc = "TRIAGED"
       => /\ \E auto \in [1..Len(feedback) -> BOOLEAN] :
                /\ Report.auto_fixable_issues = Kept(feedback, auto)
                /\ [k \in 1..Len(Report.designer_questions)
                       |-> Asked(Report.designer_questions[k])]
                   = Kept([k \in 1..Len(feedback) |-> Asked(feedback[k])],
                          [k \in 1..Len(feedback) |-> ~auto[k]])
          /\ Report.summary.total_issues = Len(feedback)
          /\ Report.summary.auto_fixable = Len(Report.auto_fixable_issues)
          /\ Report.summary.needs_designer_input = Len(Report.designer_questions)
          /\ Report.summary.auto_fixable + Report.summary.needs_designer_input
                = Report.summary.total_issues

C18_Witness ==
    /\ pc = "TRIAGED"
    /\ feedback = AllSamples
    /\ Len(Report.auto_fixable_issues) >= 2
    /\ Len(Report.designer_questions) >= 2

\* C19: every question of a report, whichever branch made it, has a context,
\* a question text, options and a recommendation, none of them empty.
C19_QuestionsFilled ==
    pc = "TRIAGED"
       => \A j \in 1..Len(Report.designer_questions) :
             LET q == Report.designer_questions[j]
             IN /\ q.context # ""
                /\ q.question # ""
                /\ q.options # << >>
                /\ q.recommendation # ""

C19_Witness ==
    /\ pc = "TRIAGED"
    /\ \A first \in {"describe", "fixed", "font-size", "accept"} :
          \E j \in 1..Len(Report.designer_questions) :
             Report.designer_questions[j].options[1] = first

\* C20: the options of a question follow from its issue: a missing element
\* gets describe / optional / defer, before anything else; a height
\* deviation gets fixed / flexible / min-height and the recommendation of
\* flexible; a typography or line-height issue, the analyzer's font size
\* issue included, gets font-size / total-height / balanced; any other issue
\* gets accept / manual / defer.
C20_QuestionDispatch ==
    pc = "TRIAGED"
       => \A j \in 1..Len(Report.designer_questions) :
             LET q == Report.designer_questions[j]
             IN IF q.category = "missing_element" \/ q.issue.text = "Element not found in DOM"
                THEN q.options = <<"describe", "optional", "defer">>
                ELSE IF q.issue.text = "Height is"
                THEN /\ q.options = <<"fixed", "flexible", "min-height">>
                     /\ q.recommendation
                           = "Recommend flexible (auto) for web-native behavior"
                ELSE IF q.category = "typography"
                        \/ q.issue.text = "Text line-height too tight"
                THEN q.options = <<"font-size", "total-height", "balanced">>
                ELSE q.options = <<"accept", "manual", "defer">>

-----------------------------------------------------------------------------
(* Plateau, stuck issues and the order of the calls (Spec)                  *)

\* the last score is no better than the score of the iteration before it
NoImprovement ==
    /\ Len(iteration_history) >= 2
    /\ LastRecord.accuracy - iteration_history[Len(iteration_history) - 1].accuracy <= 0

\* C21: a run indicates a plateau, in the summary of its TriageReport, in the
\* PLATEAU DETECTED section of the rendered report, in what it prints and in
\* its final summary, only when at budget exhaustion the last score is no
\* better than the previous one; after an improvement it reports progress.
C21_PlateauOnlyWithoutImprovement ==
    /\ \A k \in 1..Len(triage_reports) :
          /\ triage_reports[k].summary.plateau_detected => NoImprovement
          /\ ShowsPlateauSection(triage_reports[k]) => NoImprovement
    /\ progress_label = "PLATEAU DETECTED" => NoImprovement
    /\ \A s \in summary_files : s.plateau_detected => NoImprovement
    /\ (pc = "ESCALATED" /\ Len(iteration_history) >= 2 /\ ~NoImprovement)
          => progress_label = "PROGRESS MADE"

\* C22: when the triage of a run has judged an issue stuck, and so asks a
\* question about a width or font size issue, two patch calls have been
\* completed in that run.
C22_StuckAfterTwoPatches ==
    \A k \in 1..Len(triage_reports) :
       (\E j \in 1..Len(triage_reports[k].designer_questions) :
           triage_reports[k].designer_questions[j].issue.text
              \in {"Width is", "Font size is"})
          => Len(SelectSeq(patch_results, LAMBDA r : r \in {"ok", "api_error"})) >= 2

\* C23: what the controller does after an analysis follows from three facts
\* only, whether the issue list is empty, whether the score has met the target
\* and whether the index is the maximum, and never from how the score moved:
\* it enters ESCALATED only at the maximum index, and below it a run with
\* issues left and the target not met goes on to patch, plateau or not.
C23_PlateauLeavesControlFlow ==
    [][ /\ pc = "DECIDING"
           => pc' = IF Len(feedback) = 0 \/ current_accuracy >= MIN_ACCURACY_TARGET
                    THEN "SUCCEEDED"
                    ELSE IF iteration = MAX_AUTO_ITERATIONS THEN "ESCALATED"
                    ELSE "PATCHING"
        /\ pc' = "ESCALATED" => iteration' = MAX_AUTO_ITERATIONS ]_vars

C23_Witness ==
    /\ pc = "PATCHING"
    /\ iteration = 2
    /\ iteration < MAX_AUTO_ITERATIONS
    /\ NoImprovement

\* C24: the history is append-only: only an analysis changes it, by adding one
\* record at its end; its records are numbered 1, 2, ... in order; each record
\* holds the score of its own issue list and the length of that list.
C24_HistoryAppendOnly ==
    [][ /\ \/ iteration_history' = iteration_history
           \/ /\ pc = "ANALYZING"
              /\ Len(iteration_history') = Len(iteration_history) + 1
              /\ SubSeq(iteration_history', 1, Len(iteration_history)) = iteration_history
        /\ \A k \in 1..Len(iteration_history') :
              LET r == iteration_history'[k]
              IN /\ r.iteration = k
                 /\ r.total_issues = Len(r.feedback)
                 /\ r.accuracy = calculate_accuracy_score(r.feedback)
                 /\ r.accuracy = 100 - 5 * CountOf(r.feedback, "high")
                                     - 2 * CountOf(r.feedback, "medium")
                                     - CountOf(r.feedback, "low") ]_vars

C24_Witness ==
    /\ Len(iteration_history) = 3
    /\ iteration_history[3].iteration = 3
    /\ iteration_history[1].total_issues > 0
    /\ iteration_history[1].feedback # iteration_history[2].feedback


\* the calls of one collaborator in the log
CallsOf(name) == {i \in 1..Len(calls) : calls[i].call = name}

\* C25: the collaborators are called in the order measure, (patch, measure)*;
\* the k-th patch call follows an iteration k that found issues, scored below
\* the target and is not the last allowed one, it is given that iteration's
\* issue list and the artifact that was measured, and the measurement after it
\* is taken on the artifact it returned; a run that ended normally has made at
\* most MAX_AUTO_ITERATIONS - 1 patch calls and one more measure call than
\* patch calls
C25_CallsAlternate ==
    /\ \A i \in 1..Len(calls) : calls[i].call = IF i % 2 = 1 THEN "measure" ELSE "patch"
    /\ \A i \in CallsOf("patch") :
          LET k == i \div 2
          IN /\ k <= Len(iteration_history)
             /\ iteration_history[k].iteration = k
             /\ iteration_history[k].total_issues > 0
             /\ iteration_history[k].accuracy < MIN_ACCURACY_TARGET
             /\ k < MAX_AUTO_ITERATIONS
             /\ calls[i].feedback = iteration_history[k].feedback
             /\ calls[i].original_code = files[calls[i - 1].html_path]
             /\ i < Len(calls) => files[calls[i + 1].html_path] = calls[i].improved_code
    /\ pc \in {"SUCCEEDED", "ESCALATED", "DONE"}
          => /\ Cardinality(CallsOf("patch")) <= MAX_AUTO_ITERATIONS - 1
             /\ Cardinality(CallsOf("measure")) = Cardinality(CallsOf("patch")) + 1

C25_Witness ==
    /\ pc = "ESCALATED"
    /\ MAX_AUTO_ITERATIONS = 3
    /\ Len(calls) = 5
    /\ calls[2].improved_code # calls[2].original_code
    /\ calls[4].improved_code = calls[4].original_code

\* an entry of the registry without expected_width and expected_height
NoExpectations(expected) ==
    /\ "expected_width" \notin DOMAIN expected
    /\ "expected_height" \notin DOMAIN expected

\* the issues of the returned list that name the element
IssuesNaming(expected) ==
    SelectSeq(feedback, LAMBDA item : item.figma_id = expected.figma_id)

\* C26: once the analyzer has run over a registry, an element without expected
\* width and height has exactly one missing_element issue when it was not
\* found and no issue otherwise, and every other element has the issues it
\* has on its own
C26_ContainerOnlyMissingCheck ==
    pc \in {"RETURNED", "RAISED"}
        => /\ error = "none"
           /\ \A i \in 1..Len(registry) :
                 IssuesNaming(registry[i]) =
                     IF NotFound(measurements, registry[i].key)
                     THEN << MissingIssue(registry[i]) >>
                     ELSE IF NoExpectations(registry[i]) THEN << >>
                     ELSE ElementFeedback(measurements, registry[i])

\* the measurement set without the entries whose key is not in the registry
KnownOnly(dom_measurements) ==
    [key \in DOMAIN dom_measurements \cap ElementKeys |-> dom_measurements[key]]

\* the positions of the issues of a list with a given issue text
WithText(fb, text) == {k \in 1..Len(fb) : fb[k].issue.text = text}

\* C27: every issue of the returned list carries the figma_id and figma_name
\* of exactly one registry entry; entries of the measurement set under keys
\* that are not in the registry change nothing in the list; and the issues of
\* one registry entry are either a single missing_element issue, or at most one
\* width, one height and one font size issue, the last for text elements only
C27_IssuesTraceToOneElement ==
    pc \in {"RETURNED", "REPEATED"}
        => /\ \A k \in 1..Len(feedback) :
                 Cardinality({i \in 1..Len(ELEMENT_MAPPING) :
                                 /\ ELEMENT_MAPPING[i].figma_id = feedback[k].figma_id
                                 /\ ELEMENT_MAPPING[i].figma_name = feedback[k].element}) = 1
           /\ feedback = compare_measurements(KnownOnly(measurements))
           /\ \A i \in 1..Len(ELEMENT_MAPPING) :
                 LET mine == IssuesOf(feedback, ELEMENT_MAPPING[i])
                 IN \/ /\ Len(mine) = 1
                       /\ mine[1].category = "missing_element"
                    \/ /\ \A k \in 1..Len(mine) :
                             mine[k].category \in {"dimension", "typography"}
                       /\ Len(mine) <= 3
                       /\ Cardinality(WithText(mine, "Width is")) <= 1
                       /\ Cardinality(WithText(mine, "Height is")) <= 1
                       /\ Cardinality(WithText(mine, "Font size is")) <= 1
                       /\ WithText(mine, "Font size is") \cup WithText(mine, "Width is")
                              \cup WithText(mine, "Height is") = 1..Len(mine)
                       /\ \A k \in 1..Len(mine) :
                             mine[k].category = "typography"
                                 <=> mine[k].issue.text = "Font size is"
                       /\ WithText(mine, "Font size is") # {}
                              => ELEMENT_MAPPING[i].type = "text"

C27_Witness ==
    /\ pc = "RETURNED"
    /\ DOMAIN measurements \ ElementKeys # {}
    /\ \E i \in 1..Len(ELEMENT_MAPPING) : Len(IssuesOf(feedback, ELEMENT_MAPPING[i])) = 3
    /\ \E i \in 1..Len(ELEMENT_MAPPING) :
          /\ Len(IssuesOf(feedback, ELEMENT_MAPPING[i])) = 0
          /\ ELEMENT_MAPPING[i].key \in DOMAIN measurements

\* C28: when a run with MAX_AUTO_ITERATIONS >= 2 has escalated, the history
\* triage was given ends with the record of the current iteration and holds
\* at least 2 records, no issue of the report is auto-fixable and there is one
\* designer question per remaining issue
C28_EscalationTriageIsStuck ==
    pc = "ESCALATED" /\ MAX_AUTO_ITERATIONS >= 2
        => LET report == triage_reports[Len(triage_reports)]
           IN /\ Len(iteration_history) >= 2
              /\ LastRecord.iteration = iteration
              /\ LastRecord.feedback = feedback
              /\ report = triage_issues(feedback, iteration, iteration_history)
              /\ \A k \in 1..Len(feedback) :
                    categorize_issue(feedback[k], iteration_history) = "needs-designer-input"
              /\ report.auto_fixable_issues = << >>
              /\ report.summary.auto_fixable = 0
              /\ report.summary.needs_designer_input = Len(feedback)
              /\ Len(report.designer_questions) = Len(feedback)
              /\ Len(feedback) > 0

C28_Witness ==
    /\ pc = "ESCALATED"
    /\ MAX_AUTO_ITERATIONS = 2
    /\ \E k \in 1..Len(feedback) :
          /\ feedback[k].issue.text = "Width is"
          /\ categorize_issue(feedback[k], << >>) = "auto-fixable"
    /\ Len(triage_reports[1].designer_questions) = Len(feedback)

\* C29: a summary file with plateau_detected = true is the one of an escalated
\* run; a run that succeeded at an iteration of index 2 or more scored
\* strictly more in its last iteration than in the one before; the summary of
\* a run of one iteration records plateau_detected = false
C29_SummaryPlateauOnlyEscalated ==
    /\ \A s \in summary_files : s.plateau_detected => pc = "ESCALATED"
    /\ pc = "SUCCEEDED" /\ iteration >= 2
          => /\ current_accuracy > previous_accuracy
             /\ LastRecord.accuracy > iteration_history[Len(iteration_history) - 1].accuracy
             /\ \A s \in summary_files : ~s.plateau_detected
    /\ \A s \in summary_files : s.iterations_run = 1 => ~s.plateau_detected
    /\ pc \in {"SUCCEEDED", "ESCALATED"}
          => summary_files = {Summary(iteration_history, LastRecord.accuracy,
                                      IF Len(iteration_history) > 1
                                      THEN iteration_history[Len(iteration_history) - 1].accuracy
                                      ELSE 0)}

C29_Witness ==
    /\ pc = "SUCCEEDED"
    /\ iteration >= 2
    /\ Len(iteration_history) = iteration
    /\ LastRecord.total_issues > 0
    /\ \E s \in summary_files : ~s.plateau_detected /\ s.iterations_run = iteration

\* an escalated run whose summary records a plateau
C29_WitnessEscalated ==
    /\ pc = "ESCALATED"
    /\ \E s \in summary_files : s.plateau_detected

\* the list the analyzer returned for the page measured, in registry order
RegistryOrder == compare_measurements(measurements)

\* is the list in the order of the sort key of format_feedback_for_agent
InKeyOrder(fb) == \A i \in 1..Len(fb) : \A j \in i..Len(fb) : KeyLeq(fb[i], fb[j])

\* do two lists hold the same items, each as often
SameItems(fb, other) ==
    /\ Len(fb) = Len(other)
    /\ \A k \in 1..Len(fb) :
          Len(SelectSeq(fb, LAMBDA x : x = fb[k]))
              = Len(SelectSeq(other, LAMBDA x : x = fb[k]))

\* the list is the caller's after format_feedback_for_agent returned
AfterFormat == pc \in {"SAVE_BEFORE", "STEP3", "STEP6", "DONE", "EVALUATED"}

\* what run_improvement_loop and evaluate_with_measurements hand on is the
\* list as the call left it
HandedOnAsLeft ==
    /\ \A f \in summary_files :
          f.file \in {"before_measurements", "measurement_feedback"}
              => f.feedback = feedback
    /\ \A i \in CallsOf("patch") : calls[i].feedback = feedback

\* C30 (as stated): after format_feedback_for_agent returned, the caller's
\* list holds the issues the analyzer returned, in the order of (priority
\* rank, element name), and is no longer in registry order when it is not
\* empty; this list goes to improve_code and to the before-measurements file;
\* an empty list is left empty
C30_SortedNoLongerRegistryOrder ==
    AfterFormat
        => /\ SameItems(feedback, RegistryOrder)
           /\ InKeyOrder(feedback)
           /\ HandedOnAsLeft
           /\ Len(RegistryOrder) > 0 => feedback # RegistryOrder
           /\ Len(RegistryOrder) = 0 => feedback = << >>

\* C30 (amended): after format_feedback_for_agent returned, the caller's list
\* holds the issues the analyzer returned, in the order of (priority rank,
\* element name); it differs from the registry order exactly when the
\* registry order was not already that order; this list goes to improve_code
\* and to the before-measurements file; an empty list is left empty
C30_SortedInPlace ==
    AfterFormat
        => /\ SameItems(feedback, RegistryOrder)
           /\ InKeyOrder(feedback)
           /\ HandedOnAsLeft
           /\ feedback # RegistryOrder <=> ~InKeyOrder(RegistryOrder)
           /\ Len(RegistryOrder) = 0 => feedback = << >>

C30_Witness ==
    /\ pc = "STEP6"
    /\ feedback # RegistryOrder
    /\ \E f \in summary_files : f.file = "before_measurements" /\ f.feedback = feedback
    /\ calls[2].feedback = feedback
    /\ \E k \in 2..Len(feedback) :
          priority_order(feedback[k - 1].priority) < priority_order(feedback[k].priority)

\* the empty list: nothing to sort, the text says that all measurements match
C30_WitnessUnchanged ==
    /\ pc = "EVALUATED"
    /\ feedback = << >>
    /\ \E f \in summary_files :
          f.formatted_feedback = << "All measurements match Figma design!" >>
====
